---- MODULE Spec2Model ----
(***************************************************************************)
(* Model of the lanelet map engine of interactive_inference:               *)
(*   src/src/map_api/lanelet.py         MapReader (parse, match, ...)       *)
(*   src/src/map_api/lanelet_layers.py  L2Linestring, Cell, Lanelet, Lane   *)
(*                                                                         *)
(* Geometry is exact integer geometry.  Map coordinates lie on the even    *)
(* lattice and every way is axis-parallel, so that every point the code    *)
(* derives (cell corners, mid points, projections) is again an integer     *)
(* point.  Distances are carried as squared Euclidean distances (order and *)
(* zero are preserved), headings as quarter turns (units of pi/2, range    *)
(* (-2, 2]), polygons as their ring together with the set of unit squares  *)
(* they cover.                                                             *)
(***************************************************************************)
EXTENDS Integers, Sequences, FiniteSets, TLC

VARIABLES
    doc,          \* the OSM-XML document handed to parse
    pc,           \* position of parse: new, nodes, ways, relations, graph,
                  \*   lanes, done, failed
    error,        \* the exception that ended parse, None while there is none
    rel_idx,      \* index of the next relation of the document to extract
    points,       \* MapReader.points
    linestrings,  \* MapReader.linestrings: way id -> L2Linestring
    polygons,     \* MapReader.polygons: the ways with an area tag, of which
                  \*   the documents have none
    lanelets,     \* MapReader.lanelets: lanelet id -> Lanelet
    lanelet_ids,  \* insertion order of MapReader.lanelets
    crosswalks,   \* insertion order (ids) of MapReader.crosswalks
    G,            \* the lanelet graph of _extract_lanes
    node_list,    \* the nodes of G not yet put on a lane
    lanes,        \* MapReader.lanes: lanes[k + 1] is the lane of id k
    call,         \* the query in flight: its arguments and its outcome
    _drivable_polygon,  \* MapReader._drivable_polygon
    _cells,       \* MapReader._cells
    computed,     \* how often each lazy field was computed by a property read
    threads,      \* the queries of concurrent threads, each at its own step
    geo           \* a call of a function of geometry.py and what it returned

\* What parse and the queries of one caller leave alone.
others == <<polygons, _drivable_polygon, _cells, computed, threads, geo>>

vars == <<doc, pc, error, rel_idx, points, linestrings, lanelets, lanelet_ids,
          crosswalks, G, node_list, lanes, call, others>>

(***************************************************************************)
(* Bounds of the model.                                                    *)
(***************************************************************************)
MaxLanelets == 4   \* largest number of lanelet relations in a document
MaxCells == 2      \* largest max_cells argument of a query
GridMax == 4       \* query points range over (0..GridMax) x (0..GridMax)

\* cell_len as handed to MapReader(cell_len=...); two lattice units here.
cell_len == 2

(***************************************************************************)
(* Python values.                                                          *)
(***************************************************************************)
None == <<>>
Some(v) == <<v>>
NaN == <<>>

Abs(n) == IF n < 0 THEN -n ELSE n
Sgn(n) == IF n < 0 THEN -1 ELSE IF n > 0 THEN 1 ELSE 0
Min2(a, b) == IF a <= b THEN a ELSE b
Max2(a, b) == IF a >= b THEN a ELSE b
Clamp(v, lo, hi) == Max2(lo, Min2(hi, v))
Reverse(s) == [i \in 1..Len(s) |-> s[Len(s) + 1 - i]]
Last(s) == s[Len(s)]
Range(s) == {s[i] : i \in 1..Len(s)}

\* The least element of a non-empty set of integers.
MinOf(S) == CHOOSE m \in S : \A n \in S : m <= n

(***************************************************************************)
(* src/data/geometry.py (not part of the sources at hand): modelled from   *)
(* spec 4.1 and tests/test_geometry.py.                                    *)
(***************************************************************************)
\* get_heading(x1, y1, x2, y2): the angle atan2(y2 - y1, x2 - x1) of an
\* axis-parallel vector, in quarter turns; atan2(0, 0) = 0.
get_heading(p1, p2) ==
    LET dx == p2[1] - p1[1]
        dy == p2[2] - p1[2]
    IN  IF dy = 0 THEN (IF dx >= 0 THEN 0 ELSE 2)
        ELSE IF dy > 0 THEN 1 ELSE -1

\* The direction vector of a heading.
HeadingVec(h) ==
    IF h = 0 THEN <<1, 0>> ELSE IF h = 1 THEN <<0, 1>>
    ELSE IF h = 2 THEN <<-1, 0>> ELSE <<0, -1>>

\* np.sign(get_cardinal_direction(x, y, heading, x_tar, y_tar)): the sign of
\* the angle of origin -> target minus heading, wrapped to (-pi, pi]:
\* 1 left, -1 right, 0 straight ahead or target = origin, 1 straight behind.
CardSign(origin, heading, target) ==
    LET h == HeadingVec(heading)
        vx == target[1] - origin[1]
        vy == target[2] - origin[2]
        cross == h[1] * vy - h[2] * vx
        dot == h[1] * vx + h[2] * vy
    IN  IF cross # 0 THEN Sgn(cross)
        ELSE IF dot < 0 THEN 1 ELSE 0

\* mid_point(x1, y1, x2, y2)
mid_point(p1, p2) == <<(p1[1] + p2[1]) \div 2, (p1[2] + p2[2]) \div 2>>

(***************************************************************************)
(* shapely, on integer axis-parallel geometry.                             *)
(***************************************************************************)
\* Point.distance(Point), squared.
Dist2(p, q) == (p[1] - q[1]) * (p[1] - q[1]) + (p[2] - q[2]) * (p[2] - q[2])

\* The point of the axis-parallel segment a-b nearest to p.
NearestOnSeg(p, a, b) ==
    <<Clamp(p[1], Min2(a[1], b[1]), Max2(a[1], b[1])),
      Clamp(p[2], Min2(a[2], b[2]), Max2(a[2], b[2]))>>

\* Point.distance(LineString), squared; also the distance to a ring given as
\* the sequence of its corners with the first repeated last.
DistToLine2(p, line) ==
    MinOf({Dist2(p, NearestOnSeg(p, line[i], line[i + 1])) : i \in 1..(Len(line) - 1)})

\* LineString.length
SegLen(a, b) == Abs(b[1] - a[1]) + Abs(b[2] - a[2])
RECURSIVE LengthUpTo(_, _)
LengthUpTo(line, k) ==
    IF k <= 1 THEN 0 ELSE LengthUpTo(line, k - 1) + SegLen(line[k - 1], line[k])
Length(line) == LengthUpTo(line, Len(line))

\* LineString.interpolate(d): the point at arc length d, the end point
\* when d exceeds the length.
RECURSIVE InterpolateFrom(_, _, _)
InterpolateFrom(line, k, d) ==
    IF k >= Len(line) THEN Last(line)
    ELSE LET a == line[k]
             b == line[k + 1]
             l == SegLen(a, b)
         IN  IF d <= l /\ l > 0
             THEN <<a[1] + Sgn(b[1] - a[1]) * d, a[2] + Sgn(b[2] - a[2]) * d>>
             ELSE InterpolateFrom(line, k + 1, d - l)
Interpolate(line, d) == InterpolateFrom(line, 1, d)

\* LineString.project(p): the arc length of the point of the line nearest
\* to p (the first such point along the line).
Project(line, p) ==
    LET n == Len(line) - 1
        d2(i) == Dist2(p, NearestOnSeg(p, line[i], line[i + 1]))
        best == MinOf({d2(i) : i \in 1..n})
        k == MinOf({i \in 1..n : d2(i) = best})
    IN  LengthUpTo(line, k) + SegLen(line[k], NearestOnSeg(p, line[k], line[k + 1]))

\* LineString.boundary[1] / boundary[-1]: the end point of an open line.
BoundaryEnd(line) == Last(line)

\* Orientation of c with respect to the directed line a -> b.
Orient(a, b, c) ==
    Sgn((b[1] - a[1]) * (c[2] - a[2]) - (b[2] - a[2]) * (c[1] - a[1]))
InBox(a, b, c) ==
    /\ Min2(a[1], b[1]) <= c[1] /\ c[1] <= Max2(a[1], b[1])
    /\ Min2(a[2], b[2]) <= c[2] /\ c[2] <= Max2(a[2], b[2])
SegmentsIntersect(a, b, c, d) ==
    LET o1 == Orient(a, b, c)
        o2 == Orient(a, b, d)
        o3 == Orient(c, d, a)
        o4 == Orient(c, d, b)
    IN  \/ (o1 # o2 /\ o3 # o4)
        \/ (o1 = 0 /\ InBox(a, b, c))
        \/ (o2 = 0 /\ InBox(a, b, d))
        \/ (o3 = 0 /\ InBox(c, d, a))
        \/ (o4 = 0 /\ InBox(c, d, b))

\* LineString.intersects(LineString)
Intersects(l1, l2) ==
    \E i \in 1..(Len(l1) - 1) : \E j \in 1..(Len(l2) - 1) :
        SegmentsIntersect(l1[i], l1[i + 1], l2[j], l2[j + 1])

\* The lattice points of a line: on axis-parallel integer lines two lines
\* meet in lattice points only.
LatticePoints(line) ==
    UNION {{<<x, y>> : x \in Min2(line[i][1], line[i + 1][1])..Max2(line[i][1], line[i + 1][1]),
                       y \in Min2(line[i][2], line[i + 1][2])..Max2(line[i][2], line[i + 1][2])}
           : i \in 1..(Len(line) - 1)}

\* LineString.intersection(LineString), as the set of the common lattice
\* points: empty, one point, or more (a MultiPoint or a LineString).
Intersection(l1, l2) == LatticePoints(l1) \cap LatticePoints(l2)

\* The unit squares of the plane the maps live in, each named by its lower
\* left corner.
Squares == {<<i, j>> : i \in 0..7, j \in 0..3}

\* Is the centre of unit square sq inside the ring (even-odd rule)?  In
\* doubled coordinates the centre is odd and the corners are even, so the
\* ray to the right never meets a corner.
SquareInRing(ring, sq) ==
    LET cx == 2 * sq[1] + 1
        cy == 2 * sq[2] + 1
        n == Len(ring)
        nxt(i) == IF i = n THEN 1 ELSE i + 1
        crosses(i) ==
            LET ax == 2 * ring[i][1]
                ay == 2 * ring[i][2]
                bx == 2 * ring[nxt(i)][1]
                by == 2 * ring[nxt(i)][2]
            IN  /\ (ay > cy) # (by > cy)
                /\ ((bx - ax) * (cy - ay) - (cx - ax) * (by - ay)) * (by - ay) > 0
    IN  Cardinality({i \in 1..n : crosses(i)}) % 2 = 1

\* Polygon(coords).buffer(0)
Polygon(coords) ==
    [exterior |-> Append(coords, coords[1]),
     squares |-> {sq \in Squares : SquareInRing(coords, sq)}]

\* Polygon.contains(Point): the point is interior, that is every unit
\* square around it is covered.
Contains(squares, p) ==
    {<<p[1] - 1, p[2] - 1>>, <<p[1], p[2] - 1>>,
     <<p[1] - 1, p[2]>>, <<p[1], p[2]>>} \subseteq squares

\* ops.linemerge(lines) joins lines at the end points that exactly two line
\* ends share, whatever the order and the direction of the lines.  The
\* number of line ends at point pt:
EndDegree(lines, pt) ==
    Cardinality({k \in 1..Len(lines) : lines[k][1] = pt})
        + Cardinality({k \in 1..Len(lines) : Last(lines[k]) = pt})
\* The end points of the lines.
EndPoints(lines) ==
    {lines[k][1] : k \in 1..Len(lines)} \cup {Last(lines[k]) : k \in 1..Len(lines)}
\* The smallest point in the order of the merger's node map (x, then y).
FirstPoint(S) ==
    CHOOSE p \in S : \A q \in S : p[1] < q[1] \/ (p[1] = q[1] /\ p[2] <= q[2])

\* The walk of the merger from point cur over the lines not used yet: the
\* coordinates gathered, and how many lines were gone through forwards and
\* how many backwards.  The merged line has the direction of the majority.
RECURSIVE MergeFrom(_, _, _, _, _, _)
MergeFrom(lines, cur, left, acc, forwards, backwards) ==
    IF \E k \in left : lines[k][1] = cur
    THEN LET k == MinOf({i \in left : lines[i][1] = cur})
         IN  MergeFrom(lines, Last(lines[k]), left \ {k},
                       acc \o Tail(lines[k]), forwards + 1, backwards)
    ELSE IF \E k \in left : Last(lines[k]) = cur
    THEN LET k == MinOf({i \in left : Last(lines[i]) = cur})
         IN  MergeFrom(lines, lines[k][1], left \ {k},
                       acc \o Tail(Reverse(lines[k])), forwards, backwards + 1)
    ELSE IF left # {} THEN [kind |-> "MultiLineString", coords |-> <<>>]
    ELSE [kind |-> "LineString",
          coords |-> IF backwards > forwards THEN Reverse(acc) ELSE acc]

\* ops.linemerge(lines): one LineString when the lines form one open path,
\* an empty collection for no lines and a MultiLineString otherwise.
OpenEnds(lines) == {pt \in EndPoints(lines) : EndDegree(lines, pt) = 1}
linemerge(lines) ==
    IF Len(lines) = 0 THEN [kind |-> "GeometryCollection", coords |-> <<>>]
    ELSE IF \/ \E pt \in EndPoints(lines) : EndDegree(lines, pt) > 2
            \/ Cardinality(OpenEnds(lines)) # 2
    THEN [kind |-> "MultiLineString", coords |-> <<>>]
    ELSE MergeFrom(lines, FirstPoint(OpenEnds(lines)), 1..Len(lines),
                   <<FirstPoint(OpenEnds(lines))>>, 0, 0)

(***************************************************************************)
(* The documents.  Nodes lie on the even lattice, ways are the catalogue   *)
(* below, and a document lists some of the lanelet relations below in      *)
(* ascending or in descending order of their ids.                          *)
(*                                                                         *)
(*    y=4  7----h4a----8----h4b----9---h4c---12---h4d---15                 *)
(*         |           |                                                   *)
(*    y=2  4----h2a----5----h2b----6---h2c---11---h2d---14                 *)
(*         v0          v2                                                  *)
(*    y=0  1----h0a----2----h0b----3---h0c---10---h0d---13                 *)
(*                                                  h0 = h0a + h0b, one way *)
(*    a1 .. a4    the lane y in [0, 2]                                     *)
(*    o3, o4      the oncoming lane y in [2, 4] from x = 8 to x = 4, which *)
(*                shares the ways h2c and h2d with a3 and a4               *)
(*    w1, w2      the lane y in [0, 4], which overlaps it                  *)
(*    b1, b2      the lane y in [2, 4], left of it                         *)
(*    j1, j2      the strip y in [0, 2] with the bounds exchanged          *)
(*    c, x        the lanelet and the crosswalk between v0 and v2          *)
(*    g           a second successor of a1, as wide as a2, on the way h0   *)
(*    m, n        relations without a right and without a left member      *)
(***************************************************************************)
NodeIds == 1..15
\* parse_node and LL2XYProjector.latlon2xy: the metric point of a node.
NodeXY(n) ==
    IF n <= 9 THEN <<2 * ((n - 1) % 3), 2 * ((n - 1) \div 3)>>
    ELSE <<6 + 2 * ((n - 10) \div 3), 2 * ((n - 10) % 3)>>

WayIds == (10..20) \cup (41..44)
\* parse_way: the node references of a way.
WayRefs(w) ==
    CASE w = 10 -> <<1, 2, 3>>  \* h0
      [] w = 11 -> <<7, 8>>   \* h4a
      [] w = 12 -> <<8, 9>>   \* h4b
      [] w = 13 -> <<4, 5>>   \* h2a
      [] w = 14 -> <<5, 6>>   \* h2b
      [] w = 15 -> <<1, 2>>   \* h0a
      [] w = 16 -> <<2, 3>>   \* h0b
      [] w = 17 -> <<1, 7>>   \* v0
      [] w = 18 -> <<2, 8>>   \* v2
      [] w = 19 -> <<3, 10>>  \* h0c
      [] w = 20 -> <<6, 11>>  \* h2c
      [] w = 41 -> <<9, 12>>  \* h4c
      [] w = 42 -> <<10, 13>> \* h0d
      [] w = 43 -> <<11, 14>> \* h2d
      [] w = 44 -> <<12, 15>> \* h4d

\* A relation with one left and one right member, in this order.
Bounded(id, subtype, left, right) ==
    [id |-> id, subtype |-> subtype,
     members |-> <<[role |-> "left", ref |-> left], [role |-> "right", ref |-> right]>>]

\* The relations of the documents the queries are made on ...
RelIds == 21..25
\* ... and of the documents parse is followed on.
ParseRelIds == 21..34
\* parse_relation: the subtype and the members of a lanelet relation.
Relation(r) ==
    CASE r = 21 -> Bounded(21, "road", 13, 15)  \* a1
      [] r = 22 -> Bounded(22, "road", 14, 16)  \* a2
      [] r = 23 -> Bounded(23, "road", 11, 15)  \* w1
      [] r = 24 -> Bounded(24, "road", 12, 16)  \* w2
      [] r = 25 -> Bounded(25, "road", 18, 17)  \* c
      [] r = 26 -> Bounded(26, "road", 20, 19)  \* a3
      [] r = 27 -> Bounded(27, "road", 11, 13)  \* b1
      [] r = 28 -> Bounded(28, "road", 12, 14)  \* b2
      [] r = 29 -> Bounded(29, "road", 15, 13)  \* j1
      [] r = 30 -> Bounded(30, "road", 16, 14)  \* j2
      [] r = 31 -> Bounded(31, "crosswalk", 18, 17)  \* x
      [] r = 32 -> Bounded(32, "road", 14, 10)  \* g
      [] r = 33 -> [id |-> 33, subtype |-> "road",
                    members |-> <<[role |-> "left", ref |-> 13]>>]   \* m
      [] r = 34 -> [id |-> 34, subtype |-> "road",
                    members |-> <<[role |-> "right", ref |-> 15]>>]  \* n
      [] r = 35 -> Bounded(35, "road", 43, 42)  \* a4
      [] r = 36 -> Bounded(36, "road", 20, 41)  \* o3
      [] r = 37 -> Bounded(37, "road", 43, 44)  \* o4

\* The bound _extract_lanelet leaves in lanelet.left_bound (role "left") or
\* lanelet.right_bound (role "right"): the last member of that role, None
\* when there is none.
Bound(rel, role) ==
    LET at == {i \in 1..Len(rel.members) : rel.members[i].role = role}
    IN  IF at = {} THEN None ELSE Some(rel.members[-MinOf({-i : i \in at})].ref)

RECURSIVE Ascending(_)
Ascending(S) ==
    IF S = {} THEN <<>> ELSE <<MinOf(S)>> \o Ascending(S \ {MinOf(S)})

RootTags == {"osm", "gpx"}
\* The documents over the relations ids: at most MaxLanelets of them, in
\* ascending or in descending order, under either root tag.
DocsOver(ids) ==
    {[root |-> t, relations |-> s] :
        t \in RootTags,
        s \in UNION {{Ascending(S), Reverse(Ascending(S))} :
                        S \in {T \in SUBSET ids : Cardinality(T) <= MaxLanelets}}}
Docs == DocsOver(RelIds)
\* Longer documents, one by one: the lane a1 .. a4 alone, with the oncoming
\* lane listed after it and with the oncoming lane listed before it.
LongDocs ==
    {[root |-> "osm", relations |-> s] :
        s \in {<<21, 22, 26, 35>>,
               <<21, 22, 26, 35, 36, 37>>,
               <<37, 36, 35, 26, 22, 21>>}}
ParseDocs == DocsOver(ParseRelIds) \cup LongDocs

(***************************************************************************)
(* lanelet_layers.py: Cell, Lanelet                                        *)
(***************************************************************************)
\* Cell.center_line
CellCenterLine(left_bound, right_bound) ==
    <<mid_point(left_bound[1], right_bound[1]), mid_point(left_bound[2], right_bound[2])>>

CellRecord(polygon, heading, left_bound, right_bound, center_line) ==
    [polygon |-> polygon,
     heading |-> heading,
     left_bound |-> left_bound,
     right_bound |-> right_bound,
     center_line |-> center_line,
     left_bound_heading |-> get_heading(left_bound[1], left_bound[2]),
     right_bound_heading |-> get_heading(right_bound[1], right_bound[2]),
     center_line_heading |-> get_heading(center_line[1], center_line[2])]

\* Cell.__init__
Cell(polygon, heading, left_bound, right_bound) ==
    CellRecord(polygon, heading, left_bound, right_bound,
               CellCenterLine(left_bound, right_bound))

\* The number of whole steps in length.
ArangeLen_floor(length, step) == length \div step

\* np.arange(0, length, step) as the number of its entries.
ArangeLen(length, step) == (length + step - 1) \div step

\* shorter_points of the cell loop: the shorter bound cut every cell_len,
\* and its end point.
ShorterPoints(shorter_linestr, n) ==
    [i \in 1..(n + 1) |->
        IF i <= n THEN Interpolate(shorter_linestr, (i - 1) * cell_len)
        ELSE BoundaryEnd(shorter_linestr)]

\* longer_points of the cell loop: the start of the longer bound, the
\* points of it nearest to the inner shorter points, and its end point.
LongerPoints(longer_linestr, shorter_points) ==
    [i \in 1..Max2(Len(shorter_points), 2) |->
        IF i = 1 THEN Interpolate(longer_linestr, 0)
        ELSE IF i < Len(shorter_points)
             THEN Interpolate(longer_linestr, Project(longer_linestr, shorter_points[i]))
             ELSE BoundaryEnd(longer_linestr)]

\* A cell whose bounds are exchanged.
LoopCell_swapped(s1, s2, l1, l2, right_is_longer) ==
    Cell(Polygon(<<s1, s2, l2, l1>>),
         get_heading(s1, s2),
         IF right_is_longer THEN <<l1, l2>> ELSE <<s1, s2>>,
         IF right_is_longer THEN <<s1, s2>> ELSE <<l1, l2>>)

\* The body of the cell loop: the cell between the shorter points s1, s2
\* and the longer points l1, l2.
LoopCell(s1, s2, l1, l2, right_is_longer) ==
    Cell(Polygon(<<s1, s2, l2, l1>>),
         get_heading(s1, s2),
         IF right_is_longer THEN <<s1, s2>> ELSE <<l1, l2>>,
         IF right_is_longer THEN <<l1, l2>> ELSE <<s1, s2>>)

CellLoop(shorter_points, longer_points, right_is_longer) ==
    [i \in 1..(Len(shorter_points) - 1) |->
        LoopCell(shorter_points[i], shorter_points[i + 1],
                 longer_points[i], longer_points[i + 1], right_is_longer)]

CellsAlong(shorter_points, longer_linestr, right_is_longer) ==
    CellLoop(shorter_points, LongerPoints(longer_linestr, shorter_points), right_is_longer)

\* The code that Lanelet.cells and Lane.cells share: cut the bounds into
\* cells of length cell_len along the shorter one (the right one when the
\* lengths are equal).
BuildCells(left_bound_linestr, right_bound_linestr) ==
    IF Length(right_bound_linestr) > Length(left_bound_linestr)
    THEN CellsAlong(ShorterPoints(left_bound_linestr,
                                  ArangeLen(Length(left_bound_linestr), cell_len)),
                    right_bound_linestr, TRUE)
    ELSE CellsAlong(ShorterPoints(right_bound_linestr,
                                  ArangeLen(Length(right_bound_linestr), cell_len)),
                    left_bound_linestr, FALSE)

\* Lanelet.has_opposing_linestrings, on the coordinates of the two bounds.
has_opposing_linestrings(left_coords, right_coords) ==
    LET left_head == Last(left_coords)
        right_tail == right_coords[1]
        right_head == Last(right_coords)
    IN  Dist2(left_head, right_head) > Dist2(left_head, right_tail)

\* An alignment that leaves the bounds as the ways give them.
align_bounds_skipped(ls, l, r) == ls

\* Lanelet._align_bounds: the linestrings after the lanelet with bounds l
\* and r (way ids) has aligned them.  The L2Linestring objects are shared
\* with every other lanelet that refers to the same way.
align_bounds(ls, l, r) ==
    LET left_bound_coords == ls[l].linestring
        opposing == has_opposing_linestrings(ls[l].linestring, ls[r].linestring)
        right_bound_coords == IF opposing THEN Reverse(ls[r].linestring)
                              ELSE ls[r].linestring
        ls1 == IF opposing THEN [ls EXCEPT ![r].linestring = right_bound_coords]
               ELSE ls
        left_tail0 == left_bound_coords[1]
        right_tail0 == right_bound_coords[1]
        right_tail1 == right_bound_coords[2]
        right_heading == get_heading(right_tail0, right_tail1)
        card == CardSign(right_tail0, right_heading, left_tail0)
    IN  IF card < 0
        THEN [ls1 EXCEPT ![l].linestring = Reverse(left_bound_coords),
                         ![r].linestring = Reverse(right_bound_coords)]
        ELSE ls1

\* Lanelet.cells, computed from the bounds as they are now.
LaneletCells(left_coords, right_coords) ==
    BuildCells(IF has_opposing_linestrings(left_coords, right_coords)
               THEN Reverse(left_coords) ELSE left_coords,
               right_coords)

\* Lanelet.polygon, computed from the bounds as they are now.
LaneletPolygon(left_coords, right_coords) ==
    Polygon(left_coords \o
            (IF ~has_opposing_linestrings(left_coords, right_coords)
             THEN Reverse(right_coords) ELSE right_coords))

\* Lanelet._find_centerline: the merged center lines of the cells.
find_centerline(cells) ==
    linemerge([i \in 1..Len(cells) |-> cells[i].center_line])

(***************************************************************************)
(* lanelet_layers.py: Lane                                                 *)
(***************************************************************************)
\* _interpolate that reads the coordinates of whatever geometry it is given
\* and never raises.
interpolate_error_none(geom) == None

\* L2Linestring._interpolate(step=1), as far as it can fail: None when it
\* succeeds, else the exception.  The coordinates of a geometry that is not
\* one LineString cannot be read, CubicSpline wants strictly increasing
\* (sorted) x, and fewer than two grid points leave no heading to copy.
interpolate_error(geom) ==
    IF geom.kind # "LineString" THEN Some("NotImplementedError")
    ELSE LET coords == geom.coords
             xs == {coords[i][1] : i \in 1..Len(coords)}
             num_grids == Abs(coords[1][1] - Last(coords)[1])
         IN  IF Cardinality(xs) # Len(coords) THEN Some("ValueError")
             ELSE IF num_grids < 2 THEN Some("IndexError")
             ELSE None

\* get_order of Lane._align_lanelets: is the lanelet with left bound l1 the
\* parent of the one with left bound l2 (one common point, the end of l1
\* and the start of l2)?  get_order answers "child" when this holds with the
\* two exchanged.
IsParent(l1, l2) ==
    LET pt == Intersection(l1, l2)
    IN  pt = {Last(l1)} /\ pt = {l2[1]}

\* The edges of the DiGraph of Lane._align_lanelets over the lanelets ids.
OrderEdges(ids, ll, ls) ==
    {e \in ids \X ids :
        /\ e[1] # e[2]
        /\ IsParent(ls[ll[e[1]].left_bound].linestring,
                    ls[ll[e[2]].left_bound].linestring)}

RECURSIVE Orderings(_)
Orderings(S) ==
    IF S = {} THEN {<<>>}
    ELSE UNION {{<<x>> \o q : q \in Orderings(S \ {x})} : x \in S}

\* nx.topological_sort(G): the orders it may yield, over the nodes that
\* have an edge; none when the graph has a cycle.
TopologicalSorts(edges) ==
    LET nodes == {e[1] : e \in edges} \cup {e[2] : e \in edges}
    IN  {q \in Orderings(nodes) :
            \A i, j \in 1..Len(q) : <<q[i], q[j]>> \in edges => i < j}

\* Lane.__init__ after the sort: the lane of the lanelets in the order
\* sorted_ids, and the exception of _interpolate, if any.
Lane(id_, sorted_ids, ll, ls) ==
    LET n == Len(sorted_ids)
        left_bound == linemerge([i \in 1..n |-> ls[ll[sorted_ids[i]].left_bound].linestring])
        right_bound == linemerge([i \in 1..n |-> ls[ll[sorted_ids[i]].right_bound].linestring])
        centerline ==
            IF \E i \in 1..n : ll[sorted_ids[i]].centerline.kind # "LineString"
            THEN [kind |-> "MultiLineString", coords |-> <<>>]
            ELSE linemerge([i \in 1..n |-> ll[sorted_ids[i]].centerline.coords])
        err == IF interpolate_error(left_bound) # None THEN interpolate_error(left_bound)
               ELSE IF interpolate_error(right_bound) # None
                    THEN interpolate_error(right_bound)
               ELSE interpolate_error(centerline)
    IN  [error |-> err,
         lane |-> [id_ |-> id_,
                   lanelets |-> sorted_ids,
                   left_bound |-> left_bound.coords,
                   right_bound |-> right_bound.coords,
                   centerline |-> centerline.coords,
                   _polygon |-> None,
                   _cells |-> <<>>,
                   left_adjacent_lane_id |-> <<>>,
                   right_adjacent_lane_id |-> <<>>]]

(***************************************************************************)
(* lanelet.py: MapReader.parse                                             *)
(***************************************************************************)
NoCall == [kind |-> "none"]
\* An exception whose message names nothing.
Raise_unnamed(exception, names) == Some([exception |-> exception, names |-> {}])

\* An exception that ends parse, and the ids its message names.
Raise(exception, names) == Some([exception |-> exception, names |-> names])
NoGraph == [nodes |-> <<>>, edges |-> {}]

\* MapReader(): nothing read, nothing computed, nobody calling.
Fresh ==
    /\ pc = "new"
    /\ error = None
    /\ rel_idx = 1
    /\ points = {}
    /\ linestrings = <<>>
    /\ polygons = <<>>
    /\ lanelets = <<>>
    /\ lanelet_ids = <<>>
    /\ crosswalks = <<>>
    /\ G = NoGraph
    /\ node_list = <<>>
    /\ lanes = <<>>
    /\ call = NoCall
    /\ _drivable_polygon = None
    /\ _cells = <<>>
    /\ computed = [k \in {} |-> 0]
    /\ threads = <<>>
    /\ geo = NoCall

Init == doc \in Docs /\ Fresh

\* A test of the root tag any document passes.
is_osm_any(tag) == TRUE

\* `assert root.tag == "osm"`
is_osm(tag) == tag = "osm"

\* parse: the root tag is checked before anything is read.
ParseRoot ==
    /\ pc = "new"
    /\ IF is_osm(doc.root)
       THEN pc' = "nodes" /\ error' = error
       ELSE pc' = "failed" /\ error' = Raise("AssertionError", {})
    /\ UNCHANGED <<doc, rel_idx, points, linestrings, lanelets, lanelet_ids,
                   crosswalks, G, node_list, lanes, call>>
    /\ UNCHANGED others

\* parse: every node becomes a point (_extract_point).
ParseNodes ==
    /\ pc = "nodes"
    /\ points' = [n \in NodeIds |-> NodeXY(n)]
    /\ pc' = "ways"
    /\ UNCHANGED <<doc, error, rel_idx, linestrings, lanelets, lanelet_ids,
                   crosswalks, G, node_list, lanes, call>>
    /\ UNCHANGED others

\* parse: every way becomes an L2Linestring (_extract_linestring).
ParseWays ==
    /\ pc = "ways"
    /\ linestrings' =
          [w \in WayIds |->
              [linestring |-> [i \in 1..Len(WayRefs(w)) |-> points[WayRefs(w)[i]]],
               lanelet_references |-> <<>>]]
    /\ pc' = "relations"
    /\ UNCHANGED <<doc, error, rel_idx, points, lanelets, lanelet_ids,
                   crosswalks, G, node_list, lanes, call>>
    /\ UNCHANGED others

\* The lanelet _extract_lanelet builds for relation rel once its bounds are
\* aligned: _find_centerline computes and caches its cells.
NewLanelet(rel, ls) ==
    [id_ |-> rel.id,
     subtype |-> rel.subtype,
     left_bound |-> Bound(rel, "left")[1],
     right_bound |-> Bound(rel, "right")[1],
     centerline |->
        find_centerline(LaneletCells(ls[Bound(rel, "left")[1]].linestring,
                                     ls[Bound(rel, "right")[1]].linestring)),
     _polygon |-> None,
     _cells |-> LaneletCells(ls[Bound(rel, "left")[1]].linestring,
                             ls[Bound(rel, "right")[1]].linestring)]

\* linestring.add_reference(id_) for the members from the i-th on.
RECURSIVE AddReferences(_, _, _, _)
AddReferences(ls, members, i, id_) ==
    IF i > Len(members) THEN ls
    ELSE AddReferences(
            [ls EXCEPT ![members[i].ref].lanelet_references = Append(@, id_)],
            members, i + 1, id_)

\* `assert lanelet.left_bound and lanelet.right_bound`
has_bounds(rel) == Bound(rel, "left") # None /\ Bound(rel, "right") # None

\* _extract_lanelet once the bounds are there: they are aligned and the
\* lanelet is registered.
Registers(rel, aligned) ==
    /\ linestrings' = aligned
    /\ IF rel.subtype = "crosswalk"
       THEN /\ crosswalks' = Append(crosswalks, rel.id)
            /\ UNCHANGED <<lanelets, lanelet_ids>>
       ELSE /\ lanelets' = [i \in DOMAIN lanelets \cup {rel.id} |->
                               IF i = rel.id THEN NewLanelet(rel, aligned)
                               ELSE lanelets[i]]
            /\ lanelet_ids' = Append(lanelet_ids, rel.id)
            /\ UNCHANGED crosswalks
    /\ rel_idx' = rel_idx + 1
    /\ UNCHANGED <<pc, error>>

\* _extract_lanelet of relation rel, its members referenced already.
Extracts(rel, referenced) ==
    IF has_bounds(rel)
    THEN Registers(rel, align_bounds(referenced, Bound(rel, "left")[1],
                                     Bound(rel, "right")[1]))
    ELSE /\ pc' = "failed"
         /\ error' = Raise("AssertionError", {rel.id})
         /\ linestrings' = referenced
         /\ UNCHANGED <<lanelets, lanelet_ids, crosswalks, rel_idx>>

\* parse: one pass of the loop over the relations (_extract_lanelet).
ExtractLanelet ==
    /\ pc = "relations"
    /\ rel_idx <= Len(doc.relations)
    /\ Extracts(Relation(doc.relations[rel_idx]),
                AddReferences(linestrings, Relation(doc.relations[rel_idx]).members,
                              1, doc.relations[rel_idx]))
    /\ UNCHANGED <<doc, points, G, node_list, lanes, call>>
    /\ UNCHANGED others

\* No two lanelets taken for connected.
is_connected_never(lanelet1, lanelet2, ls) == FALSE

\* is_connected of _extract_lanes
is_connected(lanelet1, lanelet2, ls) ==
    /\ Intersects(ls[lanelet1.left_bound].linestring, ls[lanelet2.left_bound].linestring)
    /\ Intersects(ls[lanelet1.right_bound].linestring, ls[lanelet2.right_bound].linestring)

\* G.add_edge(u, v) on a graph that keeps its nodes in insertion order.
AddNode(nodes, v) == IF v \in Range(nodes) THEN nodes ELSE Append(nodes, v)
add_edge(g, u, v) ==
    [nodes |-> AddNode(AddNode(g.nodes, u), v), edges |-> g.edges \cup {{u, v}}]

\* The two loops of _extract_lanes that build the lanelet graph, from the
\* pair (i, j) on.
RECURSIVE BuildGraph(_, _, _, _, _, _)
BuildGraph(g, ids, i, j, ll, ls) ==
    IF i > Len(ids) - 1 THEN g
    ELSE IF j > Len(ids) THEN BuildGraph(g, ids, i + 1, i + 2, ll, ls)
    ELSE BuildGraph(IF is_connected(ll[ids[i]], ll[ids[j]], ls)
                    THEN add_edge(g, ids[i], ids[j]) ELSE g,
                    ids, i, j + 1, ll, ls)

\* parse: the relations are done; _extract_lanes builds the lanelet graph.
BuildLaneletGraph ==
    /\ pc = "relations"
    /\ rel_idx > Len(doc.relations)
    /\ G' = BuildGraph(NoGraph, lanelet_ids, 1, 2, lanelets, linestrings)
    /\ node_list' = G'.nodes
    /\ pc' = "lanes"
    /\ UNCHANGED <<doc, error, rel_idx, points, linestrings, lanelets,
                   lanelet_ids, crosswalks, lanes, call>>
    /\ UNCHANGED others

\* nx.descendants(G, source) with source itself.
RECURSIVE Reach(_, _)
Reach(edges, S) ==
    LET T == S \cup {v \in UNION edges : \E u \in S : {u, v} \in edges}
    IN  IF T = S THEN S ELSE Reach(edges, T)

\* node_list with the nodes of comp removed.
RECURSIVE Without(_, _)
Without(nodes, comp) ==
    IF nodes = <<>> THEN <<>>
    ELSE IF nodes[1] \in comp THEN Without(Tail(nodes), comp)
    ELSE <<nodes[1]>> \o Without(Tail(nodes), comp)

\* _extract_lanes: one pass of the while loop, adding the lanelets reachable
\* from the first node left as the next lane; the lane falls to whichever
\* order the topological sort yields.
AddLane ==
    /\ pc = "lanes"
    /\ node_list # <<>>
    /\ LET curr_node == node_list[1]
           connected_nodes == Reach(G.edges, {curr_node})
           sorts == TopologicalSorts(OrderEdges(connected_nodes, lanelets, linestrings))
       IN  IF sorts = {}
           THEN /\ pc' = "failed"
                /\ error' = Raise("NetworkXUnfeasible", {})
                /\ UNCHANGED <<lanes, node_list>>
           ELSE \E sorted_nodes \in sorts :
                   LET made == Lane(Len(lanes), sorted_nodes, lanelets, linestrings)
                   IN  IF made.error # None
                       THEN /\ pc' = "failed"
                            /\ error' = Raise(made.error[1], {})
                            /\ UNCHANGED <<lanes, node_list>>
                       ELSE /\ lanes' = Append(lanes, made.lane)
                            /\ node_list' = Without(node_list, connected_nodes)
                            /\ UNCHANGED <<pc, error>>
    /\ UNCHANGED <<doc, rel_idx, points, linestrings, lanelets, lanelet_ids,
                   crosswalks, G, call>>
    /\ UNCHANGED others

\* The adjacency loops of _extract_lanes for the lane pair (i, j), i < j
\* (lane ids, from 0): what they append to whose list.
LeftOf(ln, i, j) == Intersects(ln[i + 1].left_bound, ln[j + 1].right_bound)
RightOf(ln, i, j) ==
    ~LeftOf(ln, i, j) /\ Intersects(ln[i + 1].right_bound, ln[j + 1].left_bound)

RECURSIVE IdsWhere(_, _, _, _)
\* The ids a..b for which test holds, ascending, as a sequence.
IdsWhere(a, b, test(_), acc) ==
    IF a > b THEN acc
    ELSE IdsWhere(a + 1, b, test, IF test(a) THEN Append(acc, a) ELSE acc)

Adjacent(ln) ==
    [k \in 1..Len(ln) |->
        LET id == k - 1
            n == Len(ln)
            lowerLeft(i) == RightOf(ln, i, id)
            upperLeft(j) == LeftOf(ln, id, j)
            lowerRight(i) == LeftOf(ln, i, id)
            upperRight(j) == RightOf(ln, id, j)
        IN  [ln[k] EXCEPT
                !.left_adjacent_lane_id =
                    IdsWhere(0, id - 1, lowerLeft, <<>>)
                        \o IdsWhere(id + 1, n - 1, upperLeft, <<>>),
                !.right_adjacent_lane_id =
                    IdsWhere(0, id - 1, lowerRight, <<>>)
                        \o IdsWhere(id + 1, n - 1, upperRight, <<>>)]]

\* _extract_lanes: every node is on a lane; the adjacent lane ids are added
\* and parse returns.
AddAdjacency ==
    /\ pc = "lanes"
    /\ node_list = <<>>
    /\ lanes' = Adjacent(lanes)
    /\ pc' = "done"
    /\ UNCHANGED <<doc, error, rel_idx, points, linestrings, lanelets,
                   lanelet_ids, crosswalks, G, node_list, call>>
    /\ UNCHANGED others

(***************************************************************************)
(* The lazily computed properties of Lane and Lanelet.  Reading one of     *)
(* them changes the object, so each returns the value read together with   *)
(* the lanes and lanelets as the read leaves them.                         *)
(***************************************************************************)
\* `if self._polygon:`, `if self._cells:` -- an empty polygon and an empty
\* list count as not yet computed.
PolygonCached(polygon) == polygon # None /\ polygon.squares # {}
CellsCached(cells) == cells # <<>>

\* Lanelet.polygon of lanelet i.
lanelet_polygon(ll, ls, i) ==
    IF PolygonCached(ll[i]._polygon) THEN ll[i]._polygon
    ELSE LaneletPolygon(ls[ll[i].left_bound].linestring,
                        ls[ll[i].right_bound].linestring)

\* The lanelets once the polygon of each lanelet of ids is read.
WithPolygons(ll, ls, ids) ==
    [i \in DOMAIN ll |->
        IF i \in ids THEN [ll[i] EXCEPT !._polygon = lanelet_polygon(ll, ls, i)]
        ELSE ll[i]]

\* ops.unary_union of the polygons of the lanelets ids.
unary_union(ll, ids) == [squares |-> UNION {ll[i]._polygon.squares : i \in ids}]

PolygonRead(value, ln, ll, k) ==
    [value |-> value, lanes |-> [ln EXCEPT ![k + 1]._polygon = value], lanelets |-> ll]

PolygonComputed(ln, ll, k) ==
    PolygonRead(unary_union(ll, {i \in Range(ln[k + 1].lanelets) :
                                    ll[i].subtype # "crosswalk"}),
                ln, ll, k)

\* Lane.polygon of the lane of id k: the union of the polygons of its
\* lanelets that are no crosswalks.
lane_polygon(ln, ll, ls, k) ==
    IF PolygonCached(ln[k + 1]._polygon)
    THEN PolygonRead(ln[k + 1]._polygon, ln, ll, k)
    ELSE PolygonComputed(ln,
             WithPolygons(ll, ls, {i \in Range(ln[k + 1].lanelets) :
                                      ll[i].subtype # "crosswalk"}),
             k)

\* A read that leaves the list behind in the opposite order.
CellsRead_reversed(value, ln, k) ==
    [value |-> value, lanes |-> [ln EXCEPT ![k + 1]._cells = Reverse(value)]]

\* What reading Lane.cells gives and leaves behind.
CellsRead(value, ln, k) ==
    [value |-> value, lanes |-> [ln EXCEPT ![k + 1]._cells = value]]

\* Lane.cells of the lane of id k.
lane_cells(ln, k) ==
    IF CellsCached(ln[k + 1]._cells) THEN CellsRead(ln[k + 1]._cells, ln, k)
    ELSE CellsRead(BuildCells(ln[k + 1].left_bound, ln[k + 1].right_bound), ln, k)

(***************************************************************************)
(* lanelet.py: MapReader.match                                             *)
(***************************************************************************)
\* np.argmin(dists): the first index (from 0) of the least entry.
argmin(dists) ==
    MinOf({i \in 1..Len(dists) : \A j \in 1..Len(dists) : dists[i] <= dists[j]}) - 1

\* The containment loop left out: every cell is found by distance.
first_containing_never(p, cells) == None

\* The first loop of get_target_cell_id: the index (from 0) of the first
\* cell that contains p, None when there is none.
first_containing(p, cells) ==
    IF \E i \in 1..Len(cells) : Contains(cells[i].polygon.squares, p)
    THEN Some(MinOf({i \in 1..Len(cells) : Contains(cells[i].polygon.squares, p)}) - 1)
    ELSE None

\* get_target_cell_id(p, cells) of match, for cells that are not empty: the
\* index (from 0) of the first cell that contains p when no target lane is
\* given, else that of the cell whose exterior is nearest.
get_target_cell_id(p, cells, target_lane_id) ==
    IF target_lane_id = None /\ first_containing(p, cells) # None
    THEN first_containing(p, cells)[1]
    ELSE argmin([i \in 1..Len(cells) |-> DistToLine2(p, cells[i].polygon.exterior)])

\* The lanes gone through from the last one constructed to the first.
search_lanes_reversed(ln, target_lane_id) ==
    IF target_lane_id # None THEN <<target_lane_id[1]>>
    ELSE [k \in 1..Len(ln) |-> Len(ln) - k]

\* The target lane id ignored: every lane is gone through.
search_lanes_all(ln, target_lane_id) == [k \in 1..Len(ln) |-> k - 1]

\* search_lanes: the lane ids match goes through, in order.
search_lanes(ln, target_lane_id) ==
    IF target_lane_id # None THEN <<target_lane_id[1]>>
    ELSE [k \in 1..Len(ln) |-> k - 1]

\* is_continue of match
is_continue(target_lane_id, is_contain) ==
    target_lane_id # None \/ is_contain

\* The distance to the left bound signed like the other two.
directed_distances_unnegated(cell, p) ==
    [left_bound_dist |->
        CardSign(cell.left_bound[1], cell.heading, p) * DistToLine2(p, cell.left_bound),
     right_bound_dist |->
        CardSign(cell.right_bound[1], cell.heading, p) * DistToLine2(p, cell.right_bound),
     center_line_dist |->
        CardSign(cell.center_line[1], cell.heading, p) * DistToLine2(p, cell.center_line)]

\* The three directed distances of match to the bounds and the center line
\* of a cell (squared magnitudes).
directed_distances(cell, p) ==
    [left_bound_dist |->
        (-CardSign(cell.left_bound[1], cell.heading, p)) * DistToLine2(p, cell.left_bound),
     right_bound_dist |->
        CardSign(cell.right_bound[1], cell.heading, p) * DistToLine2(p, cell.right_bound),
     center_line_dist |->
        CardSign(cell.center_line[1], cell.heading, p) * DistToLine2(p, cell.center_line)]

\* np.zeros((max_cells, 3)) * np.nan
nan_headings(max_cells) == [r \in 1..max_cells |-> <<NaN, NaN, NaN>>]

\* The lookahead cell headings of match from cell cell_id (from 0) on:
\* last_cell_id = min(num_cells, cell_id + max_cells).
lookahead_headings(cells, cell_id, max_cells) ==
    [r \in 1..max_cells |->
        IF r <= Min2(Len(cells), cell_id + max_cells) - cell_id
        THEN <<Some(cells[cell_id + r].left_bound_heading),
               Some(cells[cell_id + r].right_bound_heading),
               Some(cells[cell_id + r].center_line_heading)>>
        ELSE nan_headings(max_cells)[r]]

\* The reset forgotten: the loop variable is returned as it is.
unmatched_lane_id_stale(lane_id) == lane_id

\* `if not matched: lane_id = None` after the loop of match, lane_id being
\* the loop variable as the loop left it.
unmatched_lane_id(lane_id) == None

\* match: the return inside the loop, for the cell cell_id of the lane.
MatchedValue(lane_id, cells, cell_id, dists, max_cells) ==
    [lane_id |-> Some(lane_id),
     cell_id |-> Some(cell_id),
     left_bound_dist |-> Some(dists.left_bound_dist),
     right_bound_dist |-> Some(dists.right_bound_dist),
     center_line_dist |-> Some(dists.center_line_dist),
     cell_headings |-> lookahead_headings(cells, cell_id, max_cells)]

MatchedCell(lane_id, cells, cell_id, p, max_cells) ==
    MatchedValue(lane_id, cells, cell_id, directed_distances(cells[cell_id + 1], p),
                 max_cells)

\* match: the body of `if is_continue:` with the cells of the lane read;
\* np.argmin raises ValueError on an empty list.
MatchedLane(lane_id, cells, ll, p, target_lane_id, max_cells) ==
    IF cells.value = <<>>
    THEN [outcome |-> "raise", value |-> [exception |-> "ValueError"],
          lanes |-> cells.lanes, lanelets |-> ll]
    ELSE [outcome |-> "return",
          value |-> MatchedCell(lane_id, cells.value,
                                get_target_cell_id(p, cells.value, target_lane_id),
                                p, max_cells),
          lanes |-> cells.lanes, lanelets |-> ll]

\* match: the return after the loop.
Unmatched(last, ln, ll, max_cells) ==
    [outcome |-> "return",
     value |-> [lane_id |-> unmatched_lane_id(last),
                cell_id |-> None,
                left_bound_dist |-> None,
                right_bound_dist |-> None,
                center_line_dist |-> None,
                cell_headings |-> nan_headings(max_cells)],
     lanes |-> ln, lanelets |-> ll]

\* The loop of match over search[i..]: the outcome of the call and the lanes
\* and lanelets as it leaves them.  last is the lane id the loop variable
\* holds; polygon is what reading lane.polygon gave.
RECURSIVE match_loop(_, _, _, _, _, _, _, _, _)
RECURSIVE match_step(_, _, _, _, _, _, _)
match_step(search, i, polygon, ls, p, target_lane_id, max_cells) ==
    IF is_continue(target_lane_id, Contains(polygon.value.squares, p))
    THEN MatchedLane(search[i], lane_cells(polygon.lanes, search[i]), polygon.lanelets,
                     p, target_lane_id, max_cells)
    ELSE match_loop(search, i + 1, Some(search[i]), polygon.lanes, polygon.lanelets,
                    ls, p, target_lane_id, max_cells)

match_loop(search, i, last, ln, ll, ls, p, target_lane_id, max_cells) ==
    IF i > Len(search) THEN Unmatched(last, ln, ll, max_cells)
    ELSE match_step(search, i, lane_polygon(ln, ll, ls, search[i]), ls, p,
                    target_lane_id, max_cells)

\* MapReader.match(x, y, target_lane_id, max_cells): a target lane id that
\* is no key of self.lanes raises KeyError.
match(ln, ll, ls, p, target_lane_id, max_cells) ==
    IF target_lane_id # None /\ target_lane_id[1] \notin 0..(Len(ln) - 1)
    THEN [outcome |-> "raise", value |-> [exception |-> "KeyError"], lanes |-> ln, lanelets |-> ll]
    ELSE match_loop(search_lanes(ln, target_lane_id), 1, None, ln, ll, ls,
                    p, target_lane_id, max_cells)

(***************************************************************************)
(* lanelet.py: MapReader.match_frenet                                      *)
(***************************************************************************)
\* Lane.get_frenet_coords(x, y) (spec 4.3): the arc length s of the point
\* of the center line nearest to p, that point, the heading there, and the
\* directed distances to the center line and the bounds.
FrenetCoords(lane, p, s, psi_tan) ==
    [s |-> s,
     psi_tan |-> psi_tan,
     centerline_dist |-> CardSign(Interpolate(lane.centerline, s), psi_tan, p)
                            * DistToLine2(p, lane.centerline),
     left_bound_dist |-> DistToLine2(p, lane.left_bound),
     right_bound_dist |-> DistToLine2(p, lane.right_bound)]

get_frenet_coords(lane, p) ==
    FrenetCoords(lane, p, Project(lane.centerline, p),
                 get_heading(lane.centerline[1], Last(lane.centerline)))

\* Lane.get_waypoints(x_tan, y_tan, farpoint_dists) (spec 4.3): the points
\* of the center line at the lookahead distances cell_len * (1..max_cells)
\* from s, unset past its end.
get_waypoints(lane, s, max_cells) ==
    [r \in 1..max_cells |->
        IF s + cell_len * r <= Length(lane.centerline)
        THEN Some(Interpolate(lane.centerline, s + cell_len * r))
        ELSE None]

\* The target lane is taken only when it contains the point.
frenet_is_continue_contained(target_lane_id, is_contain) == is_contain

\* is_continue of match_frenet
frenet_is_continue(target_lane_id, is_contain) ==
    target_lane_id # None \/ is_contain

\* search_lanes of match_frenet
frenet_search_lanes(ln, target_lane_id) ==
    IF target_lane_id # None THEN <<target_lane_id[1]>>
    ELSE [k \in 1..Len(ln) |-> k - 1]

\* match_frenet: the return inside the loop.
FrenetValue(lane_id, lane, out, max_cells) ==
    [lane_id |-> Some(lane_id),
     psi_tan |-> Some(out.psi_tan),
     centerline_dist |-> Some(out.centerline_dist),
     left_bound_dist |-> Some(out.left_bound_dist),
     right_bound_dist |-> Some(out.right_bound_dist),
     wp_coords |-> Some(get_waypoints(lane, out.s, max_cells))]

\* match_frenet: the return after the loop.
FrenetUnmatched(ln, ll) ==
    [outcome |-> "return",
     value |-> [lane_id |-> None, psi_tan |-> None, centerline_dist |-> None,
                left_bound_dist |-> None, right_bound_dist |-> None,
                wp_coords |-> None],
     lanes |-> ln, lanelets |-> ll]

\* The loop of match_frenet over search[i..].
RECURSIVE match_frenet_loop(_, _, _, _, _, _, _, _)
RECURSIVE match_frenet_step(_, _, _, _, _, _, _)
match_frenet_step(search, i, polygon, ls, p, target_lane_id, max_cells) ==
    IF frenet_is_continue(target_lane_id, Contains(polygon.value.squares, p))
    THEN [outcome |-> "return",
          value |-> FrenetValue(search[i], polygon.lanes[search[i] + 1],
                                get_frenet_coords(polygon.lanes[search[i] + 1], p),
                                max_cells),
          lanes |-> polygon.lanes, lanelets |-> polygon.lanelets]
    ELSE match_frenet_loop(search, i + 1, polygon.lanes, polygon.lanelets,
                           ls, p, target_lane_id, max_cells)

match_frenet_loop(search, i, ln, ll, ls, p, target_lane_id, max_cells) ==
    IF i > Len(search) THEN FrenetUnmatched(ln, ll)
    ELSE match_frenet_step(search, i, lane_polygon(ln, ll, ls, search[i]), ls, p,
                           target_lane_id, max_cells)

\* MapReader.match_frenet(x, y, target_lane_id, max_cells)
match_frenet(ln, ll, ls, p, target_lane_id, max_cells) ==
    IF target_lane_id # None /\ target_lane_id[1] \notin 0..(Len(ln) - 1)
    THEN [outcome |-> "raise", value |-> [exception |-> "KeyError"], lanes |-> ln, lanelets |-> ll]
    ELSE match_frenet_loop(frenet_search_lanes(ln, target_lane_id), 1, ln, ll, ls,
                           p, target_lane_id, max_cells)

(***************************************************************************)
(* The queries of the simulation layer on the parsed map, one at a time.   *)
(***************************************************************************)
QueryPoints == (0..GridMax) \X (0..GridMax)
TargetLaneIds == {None} \cup {Some(k) : k \in 0..(MaxLanelets \div 2)}
MaxCellsArgs == 0..MaxCells

\* The query kind(p, t, m) ends as r says: with its outcome, and with the
\* lanes and lanelets as it left them.
Returns(kind, p, t, m, r) ==
    /\ call' = [kind |-> kind, p |-> p, target_lane_id |-> t, max_cells |-> m,
                outcome |-> r.outcome, value |-> r.value]
    /\ lanes' = r.lanes
    /\ lanelets' = r.lanelets

Match ==
    /\ pc = "done"
    /\ call = NoCall
    /\ \E p \in QueryPoints, t \in TargetLaneIds, m \in MaxCellsArgs :
          Returns("match", p, t, m, match(lanes, lanelets, linestrings, p, t, m))
    /\ UNCHANGED <<doc, pc, error, rel_idx, points, linestrings, lanelet_ids,
                   crosswalks, G, node_list>>
    /\ UNCHANGED others

MatchFrenet ==
    /\ pc = "done"
    /\ call = NoCall
    /\ \E p \in QueryPoints, t \in TargetLaneIds, m \in MaxCellsArgs :
          Returns("match_frenet", p, t, m,
                  match_frenet(lanes, lanelets, linestrings, p, t, m))
    /\ UNCHANGED <<doc, pc, error, rel_idx, points, linestrings, lanelet_ids,
                   crosswalks, G, node_list>>
    /\ UNCHANGED others

\* The caller has taken the result (or handled the exception).
Consume ==
    /\ call # NoCall
    /\ call' = NoCall
    /\ UNCHANGED <<doc, pc, error, rel_idx, points, linestrings, lanelets,
                   lanelet_ids, crosswalks, G, node_list, lanes>>
    /\ UNCHANGED others

Next ==
    \/ ParseRoot
    \/ ParseNodes
    \/ ParseWays
    \/ ExtractLanelet
    \/ BuildLaneletGraph
    \/ AddLane
    \/ AddAdjacency
    \/ Match
    \/ MatchFrenet
    \/ Consume

Spec == Init /\ [][Next]_vars

(***************************************************************************)
(* parse alone, followed on the larger family of documents.                *)
(***************************************************************************)
InitParse == doc \in ParseDocs /\ Fresh

NextParse ==
    \/ ParseRoot
    \/ ParseNodes
    \/ ParseWays
    \/ ExtractLanelet
    \/ BuildLaneletGraph
    \/ AddLane
    \/ AddAdjacency

SpecParse == InitParse /\ [][NextParse]_vars

(***************************************************************************)
(* The lazily computed properties, read one at a time once parse has       *)
(* returned.  computed counts, for every property, how often its body ran  *)
(* past the test of the cached value since then.                           *)
(***************************************************************************)
MaxComputes == 2

Field(owner, id_, name) == [owner |-> owner, id_ |-> id_, name |-> name]
Times(field) == IF field \in DOMAIN computed THEN computed[field] ELSE 0
\* The counts once the body of each property of fields has run once more.
Bump(fields) ==
    [f \in DOMAIN computed \cup fields |->
        Times(f) + (IF f \in fields THEN 1 ELSE 0)]
\* The lanelets of ids whose polygon a read has to compute.
Uncached(ids) ==
    {Field("Lanelet", i, "polygon") : i \in {j \in ids : ~PolygonCached(lanelets[j]._polygon)}}
Drivable == {i \in DOMAIN lanelets : lanelets[i].subtype # "crosswalk"}

\* MapReader.drivable_polygon
ReadDrivablePolygon ==
    /\ pc = "done"
    /\ Times(Field("MapReader", 0, "drivable_polygon")) < MaxComputes
    /\ IF PolygonCached(_drivable_polygon)
       THEN UNCHANGED <<_drivable_polygon, lanelets, computed>>
       ELSE /\ lanelets' = WithPolygons(lanelets, linestrings, Drivable)
            /\ _drivable_polygon' =
                  unary_union(WithPolygons(lanelets, linestrings, Drivable), Drivable)
            /\ computed' = Bump({Field("MapReader", 0, "drivable_polygon")}
                                    \cup Uncached(Drivable))
    /\ UNCHANGED <<doc, pc, error, rel_idx, points, linestrings, polygons,
                   lanelet_ids, crosswalks, G, node_list, lanes, call, _cells,
                   threads, geo>>

\* The loops of MapReader.cells from the i-th lanelet on: a pair of polygon
\* and heading for every cell of every lanelet.
RECURSIVE reader_cells(_, _, _)
reader_cells(ll, ids, i) ==
    IF i > Len(ids) THEN <<>>
    ELSE [c \in 1..Len(ll[ids[i]]._cells) |->
             <<ll[ids[i]]._cells[c].polygon, ll[ids[i]]._cells[c].heading>>]
         \o reader_cells(ll, ids, i + 1)

\* MapReader.cells
ReadCells ==
    /\ pc = "done"
    /\ Times(Field("MapReader", 0, "cells")) < MaxComputes
    /\ IF CellsCached(_cells)
       THEN UNCHANGED <<_cells, computed>>
       ELSE /\ _cells' = _cells \o reader_cells(lanelets, lanelet_ids, 1)
            /\ computed' = Bump({Field("MapReader", 0, "cells")})
    /\ UNCHANGED <<doc, pc, error, rel_idx, points, linestrings, polygons,
                   lanelets, lanelet_ids, crosswalks, G, node_list, lanes, call,
                   _drivable_polygon, threads, geo>>

\* Lanelet.polygon
ReadLaneletPolygon ==
    /\ pc = "done"
    /\ \E i \in DOMAIN lanelets :
          /\ lanelets' = WithPolygons(lanelets, linestrings, {i})
          /\ computed' = Bump(Uncached({i}))
    /\ UNCHANGED <<doc, pc, error, rel_idx, points, linestrings, polygons,
                   lanelet_ids, crosswalks, G, node_list, lanes, call,
                   _drivable_polygon, _cells, threads, geo>>

\* Lanelet.cells: _find_centerline has read them during parse.
ReadLaneletCells ==
    /\ pc = "done"
    /\ \E i \in DOMAIN lanelets :
          IF CellsCached(lanelets[i]._cells)
          THEN UNCHANGED <<lanelets, computed>>
          ELSE /\ lanelets' =
                     [lanelets EXCEPT ![i]._cells =
                         LaneletCells(linestrings[lanelets[i].left_bound].linestring,
                                      linestrings[lanelets[i].right_bound].linestring)]
               /\ computed' = Bump({Field("Lanelet", i, "cells")})
    /\ UNCHANGED <<doc, pc, error, rel_idx, points, linestrings, polygons,
                   lanelet_ids, crosswalks, G, node_list, lanes, call,
                   _drivable_polygon, _cells, threads, geo>>

\* Lane.polygon
ReadLanePolygon ==
    /\ pc = "done"
    /\ \E k \in 0..(Len(lanes) - 1) :
          /\ lanes' = lane_polygon(lanes, lanelets, linestrings, k).lanes
          /\ lanelets' = lane_polygon(lanes, lanelets, linestrings, k).lanelets
          /\ computed' =
                IF PolygonCached(lanes[k + 1]._polygon) THEN computed
                ELSE Bump({Field("Lane", k, "polygon")}
                              \cup Uncached(Range(lanes[k + 1].lanelets)))
    /\ UNCHANGED <<doc, pc, error, rel_idx, points, linestrings, polygons,
                   lanelet_ids, crosswalks, G, node_list, call,
                   _drivable_polygon, _cells, threads, geo>>

\* Lane.cells
ReadLaneCells ==
    /\ pc = "done"
    /\ \E k \in 0..(Len(lanes) - 1) :
          /\ lanes' = lane_cells(lanes, k).lanes
          /\ computed' =
                IF CellsCached(lanes[k + 1]._cells) THEN computed
                ELSE Bump({Field("Lane", k, "cells")})
    /\ UNCHANGED <<doc, pc, error, rel_idx, points, linestrings, polygons,
                   lanelets, lanelet_ids, crosswalks, G, node_list, call,
                   _drivable_polygon, _cells, threads, geo>>

\* Maps of the lane a1, a2, the lane b1, b2 beside it and the crosswalk x,
\* the map without any lanelet among them.
LazyDocs == DocsOver({21, 22, 27, 28, 31})
InitLazy == doc \in LazyDocs /\ Fresh

NextLazy ==
    \/ ParseRoot
    \/ ParseNodes
    \/ ParseWays
    \/ ExtractLanelet
    \/ BuildLaneletGraph
    \/ AddLane
    \/ AddAdjacency
    \/ ReadDrivablePolygon
    \/ ReadCells
    \/ ReadLaneletPolygon
    \/ ReadLaneletCells
    \/ ReadLanePolygon
    \/ ReadLaneCells

SpecLazy == InitLazy /\ [][NextLazy]_vars

(***************************************************************************)
(* Queries from several threads on the parsed map.  Nothing in MapReader   *)
(* or Lane takes a lock, so the threads interleave between the test of     *)
(* Lane.cells, each of its appends and the rest of match.  A thread runs   *)
(* match(x, y, target_lane_id, max_cells) on a lane of the map:            *)
(*    test    it has read lane.polygon and is at `if self._cells:`         *)
(*    append  it is in the loop of Lane.cells, about to append cell i      *)
(*    use     Lane.cells has returned self._cells; the rest of match reads *)
(*            the list as it finds it                                      *)
(*    done    match has returned result                                    *)
(***************************************************************************)
NumThreads == 2
ThreadPoints == {<<1, 1>>, <<3, 1>>}

Started == DOMAIN threads
ThreadLane(t) == lanes[threads[t].target_lane_id + 1]
\* The cells the loop of Lane.cells appends for the lane of thread t.
ThreadCells(t) == BuildCells(ThreadLane(t).left_bound, ThreadLane(t).right_bound)
Moves(t, thread) ==
    threads' = [u \in Started \cup {t} |-> IF u = t THEN thread ELSE threads[u]]

\* A thread calls match and reads lane.polygon.
Begin ==
    /\ pc = "done"
    /\ \E t \in (1..NumThreads) \ Started, q \in ThreadPoints,
          k \in 0..(Len(lanes) - 1), m \in {MaxCells} :
          /\ Moves(t, [pc |-> "test", p |-> q, target_lane_id |-> k,
                       max_cells |-> m, i |-> 1, result |-> NoCall])
          /\ lanes' = lane_polygon(lanes, lanelets, linestrings, k).lanes
          /\ lanelets' = lane_polygon(lanes, lanelets, linestrings, k).lanelets
    /\ UNCHANGED <<doc, pc, error, rel_idx, points, linestrings, polygons,
                   lanelet_ids, crosswalks, G, node_list, call,
                   _drivable_polygon, _cells, computed, geo>>

\* Lane.cells: `if self._cells: return self._cells`
TestCells ==
    /\ \E t \in Started :
          /\ threads[t].pc = "test"
          /\ Moves(t, [threads[t] EXCEPT
                          !.pc = IF CellsCached(ThreadLane(t)._cells)
                                 THEN "use" ELSE "append"])
    /\ UNCHANGED <<doc, pc, error, rel_idx, points, linestrings, polygons,
                   lanelets, lanelet_ids, crosswalks, G, node_list, lanes, call,
                   _drivable_polygon, _cells, computed, geo>>

\* Lane.cells: one pass of the loop, `self._cells.append(cell)`
AppendCell ==
    /\ \E t \in Started :
          /\ threads[t].pc = "append"
          /\ lanes' = [lanes EXCEPT ![threads[t].target_lane_id + 1]._cells =
                           Append(@, ThreadCells(t)[threads[t].i])]
          /\ Moves(t, [threads[t] EXCEPT
                          !.i = @ + 1,
                          !.pc = IF threads[t].i = Len(ThreadCells(t))
                                 THEN "use" ELSE "append"])
    /\ UNCHANGED <<doc, pc, error, rel_idx, points, linestrings, polygons,
                   lanelets, lanelet_ids, crosswalks, G, node_list, call,
                   _drivable_polygon, _cells, computed, geo>>

\* The rest of match on the list Lane.cells returned, as it is now.
UseCells ==
    /\ \E t \in Started :
          /\ threads[t].pc = "use"
          /\ Moves(t, [threads[t] EXCEPT
                          !.pc = "done",
                          !.result =
                              [outcome |-> match(lanes, lanelets, linestrings,
                                                 threads[t].p,
                                                 Some(threads[t].target_lane_id),
                                                 threads[t].max_cells).outcome,
                               value |-> match(lanes, lanelets, linestrings,
                                               threads[t].p,
                                               Some(threads[t].target_lane_id),
                                               threads[t].max_cells).value]])
    /\ UNCHANGED <<doc, pc, error, rel_idx, points, linestrings, polygons,
                   lanelets, lanelet_ids, crosswalks, G, node_list, lanes, call,
                   _drivable_polygon, _cells, computed, geo>>

\* Maps of the lanelets a1, a2, a3 in a row.
ThreadDocs == DocsOver({21, 22, 26})
InitThreads == doc \in ThreadDocs /\ Fresh

NextThreads ==
    \/ ParseRoot
    \/ ParseNodes
    \/ ParseWays
    \/ ExtractLanelet
    \/ BuildLaneletGraph
    \/ AddLane
    \/ AddAdjacency
    \/ Begin
    \/ TestCells
    \/ AppendCell
    \/ UseCells

SpecThreads == InitThreads /\ [][NextThreads]_vars

(***************************************************************************)
(* src/data/geometry.py: closest_point_on_line, as the specification and   *)
(* tests/test_geometry.py describe it.  The point it returns has rational  *)
(* coordinates: a / den and b / den.                                       *)
(***************************************************************************)
GeoMax == 2
GeoPoints == ((0 - GeoMax)..GeoMax) \X ((0 - GeoMax)..GeoMax)

\* The foot of the perpendicular from the query on the infinite line.
closest_point_on_line_unclamped(x, y, x_line, y_line) ==
    LET dx == x_line[2] - x_line[1]
        dy == y_line[2] - y_line[1]
        t == (x - x_line[1]) * dx + (y - y_line[1]) * dy
    IN  [a |-> x_line[1] * (dx * dx + dy * dy) + t * dx,
         b |-> y_line[1] * (dx * dx + dy * dy) + t * dy,
         den |-> dx * dx + dy * dy]

\* closest_point_on_line(x, y, x_line, y_line): the orthogonal projection
\* of (x, y) on the segment from (x_line[0], y_line[0]) to (x_line[1],
\* y_line[1]), clamped to the end points of the segment.
closest_point_on_line(x, y, x_line, y_line) ==
    LET dx == x_line[2] - x_line[1]
        dy == y_line[2] - y_line[1]
        t == Clamp((x - x_line[1]) * dx + (y - y_line[1]) * dy, 0, dx * dx + dy * dy)
    IN  [a |-> x_line[1] * (dx * dx + dy * dy) + t * dx,
         b |-> y_line[1] * (dx * dx + dy * dy) + t * dy,
         den |-> dx * dx + dy * dy]

\* A query point and the two ends of a segment.
InitGeometry ==
    /\ doc = [root |-> "osm", relations |-> <<>>]
    /\ pc = "new"
    /\ error = None
    /\ rel_idx = 1
    /\ points = {}
    /\ linestrings = <<>>
    /\ polygons = <<>>
    /\ lanelets = <<>>
    /\ lanelet_ids = <<>>
    /\ crosswalks = <<>>
    /\ G = NoGraph
    /\ node_list = <<>>
    /\ lanes = <<>>
    /\ call = NoCall
    /\ _drivable_polygon = None
    /\ _cells = <<>>
    /\ computed = [k \in {} |-> 0]
    /\ threads = <<>>
    /\ geo \in {[kind |-> "args", p |-> q, line |-> <<e1, e2>>] :
                    q \in GeoPoints,
                    e1 \in GeoPoints, e2 \in GeoPoints}
    /\ geo.line[1] # geo.line[2]

ClosestPointOnLine ==
    /\ geo.kind = "args"
    /\ geo' = [kind |-> "closest_point_on_line", p |-> geo.p, line |-> geo.line,
               value |-> closest_point_on_line(
                             geo.p[1], geo.p[2],
                             <<geo.line[1][1], geo.line[2][1]>>,
                             <<geo.line[1][2], geo.line[2][2]>>)]
    /\ UNCHANGED <<doc, pc, error, rel_idx, points, linestrings, polygons,
                   lanelets, lanelet_ids, crosswalks, G, node_list, lanes, call,
                   _drivable_polygon, _cells, computed, threads>>

NextGeometry == ClosestPointOnLine

SpecGeometry == InitGeometry /\ [][NextGeometry]_vars

(***************************************************************************)
(* The cell decomposition that Lanelet.cells and Lane.cells share, on a    *)
(* left bound along y = 2 and a right bound along y = 0 that start and end *)
(* anywhere on 0..MaxSpan and run in either direction.                     *)
(***************************************************************************)
MaxSpan == 5

\* A reader that has parsed nothing and is asked nothing.
Unparsed ==
    /\ doc = [root |-> "osm", relations |-> <<>>]
    /\ pc = "new"
    /\ error = None
    /\ rel_idx = 1
    /\ points = {}
    /\ linestrings = <<>>
    /\ polygons = <<>>
    /\ lanelets = <<>>
    /\ lanelet_ids = <<>>
    /\ crosswalks = <<>>
    /\ G = NoGraph
    /\ node_list = <<>>
    /\ lanes = <<>>
    /\ call = NoCall
    /\ _drivable_polygon = None
    /\ _cells = <<>>
    /\ computed = [k \in {} |-> 0]
    /\ threads = <<>>
Rest ==
    <<doc, pc, error, rel_idx, points, linestrings, polygons, lanelets,
      lanelet_ids, crosswalks, G, node_list, lanes, call, _drivable_polygon,
      _cells, computed, threads>>

BoundsAlong(y) ==
    {<<<<x1, y>>, <<x2, y>>>> : x1 \in 0..MaxSpan, x2 \in 0..MaxSpan} \ 
        {<<<<x, y>>, <<x, y>>>> : x \in 0..MaxSpan}
\* The mid points of the corners of every cell are lattice points.
EvenCorners(cells) ==
    \A i \in 1..Len(cells) : \A j \in 1..2 :
        (cells[i].left_bound[j][1] + cells[i].right_bound[j][1]) % 2 = 0

InitCells ==
    /\ Unparsed
    /\ geo \in {[kind |-> "bounds", left_bound |-> l, right_bound |-> r] :
                    l \in BoundsAlong(2), r \in BoundsAlong(0)}
    /\ EvenCorners(BuildCells(geo.left_bound, geo.right_bound))

\* The loop of Lanelet.cells / Lane.cells on the two bounds.
CutCells ==
    /\ geo.kind = "bounds"
    /\ geo' = [kind |-> "cells", left_bound |-> geo.left_bound,
               right_bound |-> geo.right_bound,
               value |-> BuildCells(geo.left_bound, geo.right_bound)]
    /\ UNCHANGED Rest

NextCells == CutCells

SpecCells == InitCells /\ [][NextCells]_vars

(***************************************************************************)
(* get_cardinal_direction on the compass: angles are counted in eighths of *)
(* a turn (pi / 4), the target lies in one of the eight compass directions *)
(* from the origin, or on it.                                              *)
(***************************************************************************)
MaxHeading == 4

\* pi and pi / 2 in eighths of a turn.
Pi == 4
HalfPi == 2

\* np.arctan2(dy, dx) of a compass direction, in (-pi, pi]; 0 for (0, 0).
arctan2(dy, dx) ==
    IF dy = 0 THEN (IF dx >= 0 THEN 0 ELSE Pi)
    ELSE IF dx = 0 THEN (IF dy > 0 THEN HalfPi ELSE -HalfPi)
    ELSE IF dy > 0 THEN (IF dx > 0 THEN 1 ELSE 3)
    ELSE (IF dx > 0 THEN -1 ELSE -3)

\* The angles a wrapped difference can come out as: the angle in the open
\* interval (-pi, pi) that differs from it by whole turns, and for half a
\* turn either of -pi and pi, whichever the wrapping of the program yields.
wrap_angles(a) ==
    LET r == ((a + Pi) % (2 * Pi)) - Pi
    IN  IF r = -Pi THEN {-Pi, Pi} ELSE {r}

\* The difference of the two angles as it is, whole turns included, and
\* nothing special about a target on the origin.
get_cardinal_direction_unwrapped(x, y, heading, x_tar, y_tar) ==
    {arctan2(y_tar - y, x_tar - x) - heading}

\* get_cardinal_direction(x, y, heading, x_tar, y_tar): the signed angle
\* from the ray at (x, y) with the heading to the target, 0 for a target
\* on the origin.  The set of the values the call can return.
get_cardinal_direction(x, y, heading, x_tar, y_tar) ==
    IF x_tar = x /\ y_tar = y THEN {0}
    ELSE wrap_angles(arctan2(y_tar - y, x_tar - x) - heading)

\* The points in a compass direction from the origin, and the origin.
OnCompass(origin) ==
    {t \in GeoPoints :
        \/ t[1] = origin[1]
        \/ t[2] = origin[2]
        \/ Abs(t[1] - origin[1]) = Abs(t[2] - origin[2])}

\* An origin, a heading of any number of eighths up to half a turn either
\* way, and a target.
InitCardinal ==
    /\ Unparsed
    /\ geo \in {[kind |-> "ray", origin |-> o, heading |-> h, target |-> t] :
                    o \in GeoPoints, h \in (0 - MaxHeading)..MaxHeading,
                    t \in GeoPoints}
    /\ geo.target \in OnCompass(geo.origin)

GetCardinalDirection ==
    /\ geo.kind = "ray"
    /\ \E card \in get_cardinal_direction(geo.origin[1], geo.origin[2],
                       geo.heading, geo.target[1], geo.target[2]) :
           geo' = [kind |-> "get_cardinal_direction", origin |-> geo.origin,
                   heading |-> geo.heading, target |-> geo.target,
                   value |-> card]
    /\ UNCHANGED Rest

NextCardinal == GetCardinalDirection

SpecCardinal == InitCardinal /\ [][NextCardinal]_vars

(***************************************************************************)
(* coord_transformation with a basis vector, in exact fractions: the basis *)
(* vectors are those of whole length on the lattice -MaxBasis..MaxBasis, a *)
(* coordinate is a / den and b / den.                                      *)
(***************************************************************************)
MaxBasis == 4

\* np.linalg.norm([e1, e2]) of a vector of whole length.
norm(e1, e2) == CHOOSE n \in 0..(2 * MaxBasis) : n * n = e1 * e1 + e2 * e2

\* The vectors of whole length, the null vector left out.
Bases ==
    {e \in ((0 - MaxBasis)..MaxBasis) \X ((0 - MaxBasis)..MaxBasis) :
        /\ e # <<0, 0>>
        /\ \E n \in 0..(2 * MaxBasis) : n * n = e[1] * e[1] + e[2] * e[2]}

\* The rotation into the frame whatever the flag says.
coord_transformation_into(p, e1, e2, inverse) ==
    [a |-> p.a * e1 + p.b * e2,
     b |-> p.b * e1 - p.a * e2,
     den |-> p.den * norm(e1, e2)]

\* coord_transformation(x, y, e1, e2, theta=None, inverse): the point
\* rotated into the frame whose first axis runs along (e1, e2), by the
\* rotation matrix of cos = e1 / |e|, sin = e2 / |e|; out of the frame, by
\* its transpose, when inverse is set.
coord_transformation(p, e1, e2, inverse) ==
    IF inverse
    THEN [a |-> p.a * e1 - p.b * e2,
          b |-> p.a * e2 + p.b * e1,
          den |-> p.den * norm(e1, e2)]
    ELSE [a |-> p.a * e1 + p.b * e2,
          b |-> p.b * e1 - p.a * e2,
          den |-> p.den * norm(e1, e2)]

\* A point and a basis vector; the point can be the basis vector itself.
InitFrame ==
    /\ Unparsed
    /\ geo \in {[kind |-> "point", p |-> q, basis |-> e] :
                    q \in GeoPoints \cup Bases, e \in Bases}

\* x1, y1 = coord_transformation(x, y, e1, e2, theta=None, inverse=False)
Transform ==
    /\ geo.kind = "point"
    /\ geo' = [kind |-> "transformed", p |-> geo.p, basis |-> geo.basis,
               value |-> coord_transformation(
                             [a |-> geo.p[1], b |-> geo.p[2], den |-> 1],
                             geo.basis[1], geo.basis[2], FALSE)]
    /\ UNCHANGED Rest

\* x2, y2 = coord_transformation(x1, y1, e1, e2, theta=None, inverse=True)
TransformBack ==
    /\ geo.kind = "transformed"
    /\ geo' = [kind |-> "restored", p |-> geo.p, basis |-> geo.basis,
               transformed |-> geo.value,
               value |-> coord_transformation(
                             geo.value, geo.basis[1], geo.basis[2], TRUE)]
    /\ UNCHANGED Rest

NextFrame == Transform \/ TransformBack

SpecFrame == InitFrame /\ [][NextFrame]_vars

(***************************************************************************)
(* L2Linestring._interpolate on a curve of two or three lattice points and *)
(* a step of 1..MaxStep.  The curves are those for which the cubic spline  *)
(* is known exactly: the level ones, where it is the level line itself,    *)
(* and those with an x that repeats, for which CubicSpline refuses the     *)
(* knots.  The resampled coordinates are fractions over a common           *)
(* denominator den.                                                        *)
(***************************************************************************)
MaxStep == 2

CurvePoints == (0..MaxSpan) \X (0..1)
Curves ==
    {<<p, q>> : p \in CurvePoints, q \in CurvePoints}
        \cup {<<p, q, r>> : p \in CurvePoints, q \in CurvePoints, r \in CurvePoints}
Level(coords) == \A i \in 1..Len(coords) : coords[i][2] = coords[1][2]
StrictlyIncreasing(coords) ==
    Cardinality({coords[i][1] : i \in 1..Len(coords)}) = Len(coords)

\* np.linspace(start, stop, num), times den: nothing for num = 0, the start
\* alone for num = 1, else num evenly spaced values from start to stop.
linspace(start, stop, num, den) ==
    IF num = 1 THEN <<start * den>>
    ELSE [i \in 1..num |-> start * den + (i - 1) * (stop - start)]

\* np.cumsum(a)
RECURSIVE Sum(_, _)
Sum(a, n) == IF n = 0 THEN 0 ELSE Sum(a, n - 1) + a[n]
cumsum(a) == [i \in 1..Len(a) |-> Sum(a, i)]

\* np.insert(arr, -1, value): the value goes in before the last entry.
np_insert(arr, value) ==
    SubSeq(arr, 1, Len(arr) - 1) \o <<value>> \o <<arr[Len(arr)]>>

\* L2Linestring._interpolate(step): the attributes of the linestring when
\* the call returns or raises.  An attribute the call has not assigned yet
\* is None, as __init__ left it.
_interpolate(coords, step) ==
    LET num_grids == Abs(coords[1][1] - Last(coords)[1]) \div step
        den == IF num_grids > 1 THEN num_grids - 1 ELSE 1
        x_grid == linspace(coords[1][1], Last(coords)[1], num_grids, den)
        y_grid == [i \in 1..num_grids |-> coords[1][2] * den]
        cubic_spline == [i \in 1..num_grids |-> <<x_grid[i], y_grid[i]>>]
        heading == [i \in 1..(num_grids - 1) |->
                        get_heading(cubic_spline[i], cubic_spline[i + 1])]
        dist == [i \in 1..(num_grids - 1) |->
                     Abs(x_grid[i + 1] - x_grid[i])]
    IN  IF ~StrictlyIncreasing(coords)
        THEN [error |-> Some("ValueError"), den |-> 1, cubic_spline |-> None,
              spline_heading |-> None, spline_cumdist |-> None]
        ELSE IF num_grids < 2
        THEN [error |-> Some("IndexError"), den |-> den,
              cubic_spline |-> cubic_spline,
              spline_heading |-> heading, spline_cumdist |-> None]
        ELSE [error |-> None, den |-> den, cubic_spline |-> cubic_spline,
              spline_heading |-> np_insert(heading, heading[Len(heading)]),
              spline_cumdist |-> np_insert(cumsum(dist),
                                           cumsum(dist)[Len(dist)])]

InitInterpolate ==
    /\ Unparsed
    /\ geo \in {[kind |-> "curve", coords |-> c, step |-> s] :
                    c \in Curves, s \in 1..MaxStep}
    /\ Level(geo.coords) \/ ~StrictlyIncreasing(geo.coords)

Resample ==
    /\ geo.kind = "curve"
    /\ geo' = [kind |-> "_interpolate", coords |-> geo.coords,
               step |-> geo.step,
               value |-> _interpolate(geo.coords, geo.step)]
    /\ UNCHANGED Rest

NextInterpolate == Resample

SpecInterpolate == InitInterpolate /\ [][NextInterpolate]_vars

(***************************************************************************)
(* The claims.  A query is judged on the record of the call it left; the   *)
(* polygon and the cells of a lane are what reading the lazy properties    *)
(* gives, whether or not they are cached yet.                              *)
(***************************************************************************)
LaneIds == 0..(Len(lanes) - 1)
LaneArea(k) == lane_polygon(lanes, lanelets, linestrings, k).value.squares
LaneCells(k) == lane_cells(lanes, k).value
InLane(k, p) == Contains(LaneArea(k), p)
InCell(k, c, p) == Contains(LaneCells(k)[c + 1].polygon.squares, p)

IsQuery == call.kind \in {"match", "match_frenet"}
IsMatch == call.kind = "match"
Returned == call.outcome = "return"
\* match returned a lane and a cell of it.
Matched == IsMatch /\ Returned /\ call.value.lane_id # None
MatchedCellOf == LaneCells(call.value.lane_id[1])[call.value.cell_id[1] + 1]

\* C1: match without target_lane_id on a point that no lane's polygon
\* contains returns the sentinel: lane_id, cell_id and the three distances
\* are None and every row of the heading array is unset, for any number of
\* lanes.
C1_NoMatchSentinel ==
    (/\ IsMatch
     /\ call.target_lane_id = None
     /\ \A k \in LaneIds : ~InLane(k, call.p))
    => /\ Returned
       /\ call.value.lane_id = None
       /\ call.value.cell_id = None
       /\ call.value.left_bound_dist = None
       /\ call.value.right_bound_dist = None
       /\ call.value.center_line_dist = None
       /\ Len(call.value.cell_headings) = call.max_cells
       /\ \A r \in 1..call.max_cells : call.value.cell_headings[r] = <<NaN, NaN, NaN>>

\* Two lanes were scanned, neither contains the point, the sentinel came back.
C1_Witness ==
    /\ IsMatch /\ Returned
    /\ call.target_lane_id = None
    /\ Len(lanes) = 2
    /\ \A k \in LaneIds : ~InLane(k, call.p)
    /\ call.max_cells > 0
    /\ call.value.lane_id = None

\* The three ways of C2 in which a query finds no lane.
FindsNoLane ==
    \/ /\ call.target_lane_id = None
       /\ \A k \in LaneIds : ~InLane(k, call.p)
    \/ /\ call.target_lane_id # None
       /\ call.target_lane_id[1] \notin LaneIds
    \/ /\ call.target_lane_id # None
       /\ call.target_lane_id[1] \in LaneIds
       /\ LaneCells(call.target_lane_id[1]) = <<>>
    \/ /\ call.target_lane_id = None
       /\ \E k \in LaneIds : InLane(k, call.p)
       /\ LaneCells(MinOf({k \in LaneIds : InLane(k, call.p)})) = <<>>

\* C2: a match or match_frenet query that finds no lane (point outside
\* every lane, target_lane_id naming no lane, selected lane without cells)
\* returns the sentinel and never ends with an exception.
C2_NoLaneNeverRaises ==
    (IsQuery /\ FindsNoLane) => (Returned /\ call.value.lane_id = None)

C4_FirstContainingLane ==
    (/\ IsMatch
     /\ call.target_lane_id = None
     /\ \E k \in LaneIds : InLane(k, call.p))
    => /\ Returned
       /\ call.value.lane_id = Some(MinOf({k \in LaneIds : InLane(k, call.p)}))

\* Two lanes contain the point and the one constructed first is returned.
C4_Witness ==
    /\ Matched
    /\ call.target_lane_id = None
    /\ Len(lanes) = 2
    /\ InLane(0, call.p)
    /\ InLane(1, call.p)
    /\ call.value.lane_id = Some(0)

\* C5: within the lane match selects, by containment or by target_lane_id,
\* the cell returned contains the point whenever a cell of the lane does;
\* only when none does is it the cell whose exterior is nearest.
C5_ContainingCellPreferred ==
    Matched =>
        LET k == call.value.lane_id[1]
            n == Len(LaneCells(k))
            c == call.value.cell_id[1]
            d(i) == DistToLine2(call.p, LaneCells(k)[i + 1].polygon.exterior)
        IN  IF \E i \in 0..(n - 1) : InCell(k, i, call.p)
            THEN InCell(k, c, call.p)
            ELSE \A i \in 0..(n - 1) : d(c) <= d(i)

\* C6: with target_lane_id naming a lane of the map, match and match_frenet
\* return the target lane id or the no-match value, never another lane's
\* id, wherever the point lies.
C6_OnlyTargetLane ==
    (/\ IsQuery
     /\ call.target_lane_id # None
     /\ call.target_lane_id[1] \in LaneIds
     /\ Returned)
    => call.value.lane_id \in {None, call.target_lane_id}

\* The point is inside another lane and outside the target lane, and the
\* target lane comes back.
C6_Witness ==
    /\ IsQuery /\ Returned
    /\ call.target_lane_id # None
    /\ call.target_lane_id[1] \in LaneIds
    /\ ~InLane(call.target_lane_id[1], call.p)
    /\ \E j \in LaneIds : j < call.target_lane_id[1] /\ InLane(j, call.p)
    /\ call.value.lane_id = call.target_lane_id

\* C7: on a match of cell c in a lane of n cells the heading array has
\* max_cells rows, the first min(max_cells, n - c) hold the left, right and
\* center headings of the cells c, c + 1, ... and every other row is filled
\* with zeros.
C7_ZeroPadded ==
    Matched =>
        LET cells == LaneCells(call.value.lane_id[1])
            c == call.value.cell_id[1]
            filled == Min2(call.max_cells, Len(cells) - c)
        IN  /\ Len(call.value.cell_headings) = call.max_cells
            /\ \A r \in 1..call.max_cells :
                  call.value.cell_headings[r] =
                      IF r <= filled
                      THEN <<Some(cells[c + r].left_bound_heading),
                             Some(cells[c + r].right_bound_heading),
                             Some(cells[c + r].center_line_heading)>>
                      ELSE <<Some(0), Some(0), Some(0)>>

\* The side of p as seen from origin along heading: 1 left, -1 right, 0 on
\* the line through origin.
Side(origin, heading, p) ==
    Sgn(HeadingVec(heading)[1] * (p[2] - origin[2])
        - HeadingVec(heading)[2] * (p[1] - origin[1]))
\* dist is positive on the left of the line and negative on its right.
LeftPositive(line, heading, p, dist) ==
    /\ Side(line[1], heading, p) = 1 => dist > 0
    /\ Side(line[1], heading, p) = -1 => dist < 0

OtherQuery ==
    IF call.kind = "match"
    THEN match_frenet(lanes, lanelets, linestrings, call.p, call.target_lane_id,
                      call.max_cells)
    ELSE match(lanes, lanelets, linestrings, call.p, call.target_lane_id,
               call.max_cells)

C10_ConnectedInOneLane ==
    pc = "done" =>
        \A a, b \in DOMAIN lanelets :
            (a # b /\ is_connected(lanelets[a], lanelets[b], linestrings))
            => \E k \in 1..Len(lanes) : {a, b} \subseteq Range(lanes[k].lanelets)

(***************************************************************************)
(* The claims on parse.                                                    *)
(***************************************************************************)
LeftLine(a) == linestrings[lanelets[a].left_bound].linestring
RightLine(a) == linestrings[lanelets[a].right_bound].linestring
\* The left bounds of a and b intersect and so do their right bounds.
Touching(a, b) ==
    Intersects(LeftLine(a), LeftLine(b)) /\ Intersects(RightLine(a), RightLine(b))
\* Neither the left bounds nor the right bounds of a and b intersect.
SharesNoPoints(a, b) ==
    ~Intersects(LeftLine(a), LeftLine(b)) /\ ~Intersects(RightLine(a), RightLine(b))
\* The lanelets a chain of touching lanelets links to one of S.
RECURSIVE LinkedTo(_)
LinkedTo(S) ==
    IF \E b \in DOMAIN lanelets \ S : \E a \in S : Touching(a, b)
    THEN LinkedTo(S \cup {b \in DOMAIN lanelets : \E a \in S : Touching(a, b)})
    ELSE S
\* a has a predecessor or a successor among the lanelets linked to it.
InOrder(a) ==
    \E c \in LinkedTo({a}) \ {a} :
        \/ IsParent(LeftLine(a), LeftLine(c))
        \/ IsParent(LeftLine(c), LeftLine(a))
SameLane(a, b) == \E k \in 1..Len(lanes) : {a, b} \subseteq Range(lanes[k].lanelets)

\* C11 as claimed: after parse, two lanelets that share no boundary points
\* (neither their left nor their right bounds intersect) are never members
\* of the same Lane.
C11_AsClaimed ==
    pc = "done" =>
        \A a, b \in DOMAIN lanelets :
            (a # b /\ SharesNoPoints(a, b)) => ~SameLane(a, b)

\* C11 as amended: after parse, two lanelets are members of the same Lane
\* exactly when a chain of lanelets links them, each sharing a left boundary
\* point and a right boundary point with the next, and each of the two has
\* a predecessor or a successor among the lanelets so linked; two lanelets
\* that no chain links are never in the same Lane, two that share no
\* boundary points are when a chain links them.
C11_SameLaneIffLinked ==
    pc = "done" =>
        \A a, b \in DOMAIN lanelets :
            a # b => (SameLane(a, b) <=> /\ b \in LinkedTo({a})
                                         /\ InOrder(a)
                                         /\ InOrder(b))

\* Two lanelets that share no boundary points are in one Lane, linked by a
\* third.
C11_Witness ==
    /\ pc = "done"
    /\ \E a, b \in DOMAIN lanelets :
          /\ a # b
          /\ SharesNoPoints(a, b)
          /\ b \in LinkedTo({a})
          /\ SameLane(a, b)

\* B follows A: the left bound of A ends where the left bound of B starts.
Follows(A, B) == Last(LeftLine(A)) = LeftLine(B)[1]

\* C12: in every Lane construction produces the lanelet list is in
\* topological order: for consecutive lanelets (A, B) of the list the end
\* point of A's left bound is the start point of B's left bound.
C12_LaneletsInOrder ==
    \A k \in 1..Len(lanes) :
        \A i \in 1..(Len(lanes[k].lanelets) - 1) :
            Follows(lanes[k].lanelets[i], lanes[k].lanelets[i + 1])

\* The parents and the children of lanelet a in the DiGraph of the Lane its
\* component is handed to.
Parents(a) == {c \in LinkedTo({a}) \ {a} : IsParent(LeftLine(c), LeftLine(a))}
Children(a) == {c \in LinkedTo({a}) \ {a} : IsParent(LeftLine(a), LeftLine(c))}
RECURSIVE Downstream(_)
Downstream(S) ==
    IF UNION {Children(c) : c \in S} \subseteq S THEN S
    ELSE Downstream(S \cup UNION {Children(c) : c \in S})
\* The order of a among the lanelets of its component is not unique.
Ambiguous(a) ==
    \/ Cardinality(Parents(a)) > 1
    \/ Cardinality(Children(a)) > 1
    \/ a \in Downstream(Children(a))

MissingBound(rel) ==
    \E role \in {"left", "right"} :
        \A i \in 1..Len(rel.members) : rel.members[i].role # role
\* The relation the next pass of the loop of parse extracts.
NextRelation == Relation(doc.relations[rel_idx])

\* C14: the extraction of a lanelet relation without a member with role
\* left or without one with role right fails with an error that names the
\* id of the relation; no lanelet with that id is registered in lanelets or
\* in crosswalks, and the coordinates of no way are aligned.
C14_MissingBoundRejected ==
    [][(pc = "relations" /\ rel_idx <= Len(doc.relations) /\ MissingBound(NextRelation))
        => /\ pc' = "failed"
           /\ error' = Some([exception |-> "AssertionError", names |-> {NextRelation.id}])
           /\ NextRelation.id \notin DOMAIN lanelets'
           /\ NextRelation.id \notin Range(lanelet_ids')
           /\ NextRelation.id \notin Range(crosswalks')
           /\ \A w \in DOMAIN linestrings :
                 linestrings'[w].linestring = linestrings[w].linestring]_vars

\* The extraction of a relation without one of its bounds has failed, past
\* a lanelet extracted before it.
C14_Witness ==
    /\ pc = "failed"
    /\ rel_idx > 1
    /\ rel_idx <= Len(doc.relations)
    /\ MissingBound(NextRelation)
    /\ error = Some([exception |-> "AssertionError", names |-> {NextRelation.id}])
    /\ NextRelation.id \notin DOMAIN lanelets

\* C15: when the root tag of the document is not "osm", parse fails with
\* the assertion and leaves the MapReader as it was: points, linestrings,
\* polygons, lanelets, crosswalks and lanes are all still empty.
C15_NotOsmLeavesReaderEmpty ==
    doc.root # "osm" =>
        /\ pc \in {"new", "failed"}
        /\ pc = "failed" => error = Some([exception |-> "AssertionError", names |-> {}])
        /\ points = {}
        /\ linestrings = <<>>
        /\ polygons = <<>>
        /\ lanelets = <<>>
        /\ crosswalks = <<>>
        /\ lanes = <<>>

\* parse of a document with lanelet relations and another root has failed.
C15_Witness ==
    /\ doc.root # "osm"
    /\ doc.relations # <<>>
    /\ pc = "failed"

\* How often id occurs in the list ids.
Count(ids, id) == Cardinality({i \in 1..Len(ids) : ids[i] = id})

\* C19: after parse, for every ordered pair of distinct lanes (a, b), b is
\* in the left_adjacent_lane_id of a and a in the right_adjacent_lane_id of
\* b exactly when the left boundary of a intersects the right boundary of
\* b; every neighbour is listed once and no lane lists itself.
C19_AdjacencyIffBoundsMeet ==
    pc = "done" =>
        \A a, b \in 1..Len(lanes) :
            /\ Count(lanes[a].left_adjacent_lane_id, lanes[b].id_) <= 1
            /\ Count(lanes[a].right_adjacent_lane_id, lanes[b].id_) <= 1
            /\ a = b => /\ Count(lanes[a].left_adjacent_lane_id, lanes[a].id_) = 0
                        /\ Count(lanes[a].right_adjacent_lane_id, lanes[a].id_) = 0
            /\ a # b =>
                  ((/\ Count(lanes[a].left_adjacent_lane_id, lanes[b].id_) = 1
                    /\ Count(lanes[b].right_adjacent_lane_id, lanes[a].id_) = 1)
                   <=> Intersects(lanes[a].left_bound, lanes[b].right_bound))

(***************************************************************************)
(* The claims on the lazily computed properties.                           *)
(***************************************************************************)
\* C16: each lazily memoized field (MapReader.drivable_polygon,
\* MapReader.cells, Lanelet.polygon, Lanelet.cells, Lane.polygon,
\* Lane.cells) is computed at most once over any sequence of accesses,
\* whatever value the first computation produced.
C16_ComputedAtMostOnce == \A f \in DOMAIN computed : computed[f] <= 1

\* The lanes as parse left them, nothing cached.
Pristine ==
    [k \in 1..Len(lanes) |-> [lanes[k] EXCEPT !._polygon = None, !._cells = <<>>]]
\* What the query of thread t returns when it runs alone.
Alone(t) ==
    match(Pristine, lanelets, linestrings, threads[t].p,
          Some(threads[t].target_lane_id), threads[t].max_cells)

\* C17: after parse has returned, concurrent match queries from several
\* threads are safe: each returns exactly the result it returns when run
\* alone, and no cell list of a lane ends up longer than the cells of the
\* lane, that is computed twice or with a cell in it more than once.
C17_ConcurrentQueriesSafe ==
    /\ \A t \in Started :
          threads[t].pc = "done" =>
              /\ threads[t].result.outcome = Alone(t).outcome
              /\ threads[t].result.value = Alone(t).value
    /\ \A k \in 1..Len(lanes) :
          Len(lanes[k]._cells) <= Len(BuildCells(lanes[k].left_bound, lanes[k].right_bound))

\* A lane or lanelet but for its caches.
Uncache(object) == [object EXCEPT !._polygon = None, !._cells = <<>>]
\* The step leaves cache `after` as it was, or fills it with value when it
\* was not filled before.
Filled(cached, before, after, value) ==
    IF cached THEN after = before ELSE after = before \/ after = value

\* C18 as claimed: once parse has returned no shared state is mutated; a
\* query leaves every field of the MapReader, its lanes, lanelets and
\* linestrings exactly as before, cached polygons and cell lists included.
C18_AsClaimed ==
    [][pc = "done" => UNCHANGED <<points, linestrings, polygons, lanelets,
                                  lanelet_ids, crosswalks, lanes,
                                  _drivable_polygon, _cells>>]_vars

\* C18 as amended: once parse has returned, a query changes nothing but
\* the caches _polygon and _cells of lanes and _polygon of lanelets, and a
\* cache it changes was not filled before and now holds the value its
\* property computes.
C18_OnlyCachesFilled ==
    [][pc = "done" =>
        /\ UNCHANGED <<points, linestrings, polygons, lanelet_ids, crosswalks,
                       _drivable_polygon, _cells>>
        /\ DOMAIN lanes' = DOMAIN lanes
        /\ DOMAIN lanelets' = DOMAIN lanelets
        /\ \A k \in DOMAIN lanes :
              /\ Uncache(lanes'[k]) = Uncache(lanes[k])
              /\ Filled(PolygonCached(lanes[k]._polygon), lanes[k]._polygon,
                        lanes'[k]._polygon,
                        lane_polygon(lanes, lanelets, linestrings, k - 1).value)
              /\ Filled(CellsCached(lanes[k]._cells), lanes[k]._cells,
                        lanes'[k]._cells,
                        BuildCells(lanes[k].left_bound, lanes[k].right_bound))
        /\ \A i \in DOMAIN lanelets :
              /\ Uncache(lanelets'[i]) = Uncache(lanelets[i])
              /\ lanelets'[i]._cells = lanelets[i]._cells
              /\ Filled(PolygonCached(lanelets[i]._polygon), lanelets[i]._polygon,
                        lanelets'[i]._polygon,
                        lanelet_polygon(lanelets, linestrings, i))]_vars

\* A query has returned and left the polygon and the cells of a lane
\* cached, and the polygon of another lane not.
C18_Witness ==
    /\ pc = "done"
    /\ call # NoCall
    /\ \E k, j \in 1..Len(lanes) :
          /\ PolygonCached(lanes[k]._polygon)
          /\ CellsCached(lanes[k]._cells)
          /\ ~PolygonCached(lanes[j]._polygon)

(***************************************************************************)
(* The claims on the geometry helpers.  With r the point returned, p the   *)
(* query and e1, e2 the ends of the segment, all distances are compared    *)
(* scaled by r.den.                                                        *)
(***************************************************************************)
\* r lies on the segment from e1 to e2.
OnSegment(r, e1, e2) ==
    /\ (e2[1] - e1[1]) * (r.b - e1[2] * r.den) = (e2[2] - e1[2]) * (r.a - e1[1] * r.den)
    /\ Min2(e1[1], e2[1]) * r.den <= r.a /\ r.a <= Max2(e1[1], e2[1]) * r.den
    /\ Min2(e1[2], e2[2]) * r.den <= r.b /\ r.b <= Max2(e1[2], e2[2]) * r.den
\* r is the foot of the perpendicular from p on the line through e1, e2.
IsFoot(r, p, e1, e2) ==
    (p[1] * r.den - r.a) * (e2[1] - e1[1]) + (p[2] * r.den - r.b) * (e2[2] - e1[2]) = 0
\* r is the end e of the segment, and the other end f is no nearer to p.
IsNearerEnd(r, p, e, f) ==
    /\ r.a = e[1] * r.den
    /\ r.b = e[2] * r.den
    /\ Dist2(p, e) <= Dist2(p, f)
\* No point j / den of the way from e1 to e2 is nearer to p than r.
Nearest(r, p, e1, e2) ==
    \A j \in 0..r.den :
        Dist2(<<p[1] * r.den, p[2] * r.den>>, <<r.a, r.b>>)
            <= Dist2(<<p[1] * r.den, p[2] * r.den>>,
                     <<e1[1] * r.den + j * (e2[1] - e1[1]),
                       e1[2] * r.den + j * (e2[2] - e1[2])>>)

\* C20: closest_point_on_line returns the point of the segment nearest to
\* the query: the foot of the perpendicular when it falls within the
\* segment, otherwise the nearer end point; the result always lies on the
\* segment.
C20_NearestPointOfSegment ==
    geo.kind = "closest_point_on_line" =>
        /\ OnSegment(geo.value, geo.line[1], geo.line[2])
        /\ \/ IsFoot(geo.value, geo.p, geo.line[1], geo.line[2])
           \/ IsNearerEnd(geo.value, geo.p, geo.line[1], geo.line[2])
           \/ IsNearerEnd(geo.value, geo.p, geo.line[2], geo.line[1])
        /\ Nearest(geo.value, geo.p, geo.line[1], geo.line[2])

\* The second case of test_closest_point_on_line: the foot of the
\* perpendicular from (0, 0) falls before the segment from (1, 1) to
\* (2, 1), and the end (1, 1) is returned.
C20_Witness ==
    /\ geo.kind = "closest_point_on_line"
    /\ geo.p = <<0, 0>>
    /\ geo.line = <<<<1, 1>>, <<2, 1>>>>
    /\ geo.value.a = geo.value.den
    /\ geo.value.b = geo.value.den
    /\ ~IsFoot(geo.value, geo.p, geo.line[1], geo.line[2])

(***************************************************************************)
(* The claims on the alignment of the bounds and on the phases of parse.   *)
(***************************************************************************)
\* Every lanelet relation of the document has been extracted.
Extracted == pc \in {"relations", "graph", "lanes", "done"} /\ rel_idx > Len(doc.relations)

\* C24: after all lanelet relations of a map have been extracted, the left
\* and the right boundary of every lanelet run in the same direction
\* (has_opposing_linestrings() is false), also for a lanelet that shares a
\* boundary way with a lanelet aligned later.
C24_BoundsSameDirection ==
    Extracted =>
        \A a \in DOMAIN lanelets : ~has_opposing_linestrings(LeftLine(a), RightLine(a))

\* C30: at the end of parse the cached cells and the centerline of every
\* lanelet agree with the final coordinate order of its bounds: they are
\* what Lanelet.cells and _find_centerline compute from the bounds as they
\* are now, no bound having been reversed since they were cached.
C30_CellsAgreeWithBounds ==
    pc = "done" =>
        \A a \in DOMAIN lanelets :
            /\ lanelets[a]._cells = LaneletCells(LeftLine(a), RightLine(a))
            /\ lanelets[a].centerline =
                  find_centerline(LaneletCells(LeftLine(a), RightLine(a)))

\* The bounds l and r are as _align_bounds leaves them: they run in the same
\* direction and l starts on the left of r.
Aligned(l, r) ==
    /\ ~has_opposing_linestrings(l, r)
    /\ CardSign(r[1], get_heading(r[1], r[2]), l[1]) >= 0
\* The lanelet relations of the document that are no crosswalks.
RoadIds == {id \in Range(doc.relations) : Relation(id).subtype # "crosswalk"}

\* C25: parse runs its phases in order.  Ways are resolved only once every
\* node is a point, a lanelet is registered only once every way is a
\* linestring, and then with its bounds aligned and its centerline derived
\* from them; the lanelet graph and the Lanes are built only once every
\* lanelet relation is extracted, from registered lanelets only.
C25_PhasesInOrder ==
    [][/\ linestrings' # linestrings /\ linestrings = <<>>
            => pc = "ways" /\ DOMAIN points = NodeIds
       /\ lanelet_ids' # lanelet_ids
            => /\ pc = "relations"
               /\ DOMAIN linestrings = WayIds
               /\ \A a \in DOMAIN lanelets' \ DOMAIN lanelets :
                     /\ Aligned(linestrings'[lanelets'[a].left_bound].linestring,
                                linestrings'[lanelets'[a].right_bound].linestring)
                     /\ lanelets'[a].centerline =
                           find_centerline(LaneletCells(
                               linestrings'[lanelets'[a].left_bound].linestring,
                               linestrings'[lanelets'[a].right_bound].linestring))
       /\ (G' # G \/ lanes' # lanes)
            => /\ rel_idx > Len(doc.relations)
               /\ RoadIds = DOMAIN lanelets
               /\ linestrings' = linestrings
               /\ \A k \in 1..Len(lanes') :
                     Range(lanes'[k].lanelets) \subseteq DOMAIN lanelets]_vars

\* parse has built a Lane of a map on which an alignment reversed a way.
C25_Witness ==
    /\ pc = "done"
    /\ Len(lanes) > 0
    /\ \E w \in WayIds :
          linestrings[w].linestring # [i \in 1..Len(WayRefs(w)) |-> points[WayRefs(w)[i]]]

\* C29: after a successful parse the Lanes partition the lanelets of
\* MapReader.lanelets: every one of them is in the lanelet list of exactly
\* one Lane, once.
C29_LanesPartitionLanelets ==
    pc = "done" =>
        \A a \in DOMAIN lanelets :
            /\ Cardinality({k \in 1..Len(lanes) : a \in Range(lanes[k].lanelets)}) = 1
            /\ \A k \in 1..Len(lanes) : Count(lanes[k].lanelets, a) <= 1

(***************************************************************************)
(* The claims on the cell decomposition.                                   *)
(***************************************************************************)
\* The bound the decomposition resamples: the shorter one, the right one
\* when the lengths are equal.
Shorter == IF Length(geo.right_bound) > Length(geo.left_bound)
           THEN geo.left_bound ELSE geo.right_bound
\* The sub-segment of cell c on the bound that is resampled.
ShorterSide(c) == IF Length(geo.right_bound) > Length(geo.left_bound)
                  THEN c.left_bound ELSE c.right_bound
\* Both ends of the segment lie on the line.
LiesOn(segment, line) ==
    DistToLine2(segment[1], line) = 0 /\ DistToLine2(segment[2], line) = 0

\* C26: the heading of every cell is the heading of the sub-segment cut
\* from the shorter of the two bounds (the right one when the lengths are
\* equal), and the left_bound and right_bound of every cell lie on the left
\* and on the right bound, whichever of the two is the shorter.
C26_HeadingOfShorterBound ==
    geo.kind = "cells" =>
        \A i \in 1..Len(geo.value) :
            /\ geo.value[i].heading =
                  get_heading(Interpolate(Shorter, (i - 1) * cell_len),
                              Interpolate(Shorter, Min2(i * cell_len, Length(Shorter))))
            /\ LiesOn(geo.value[i].left_bound, geo.left_bound)
            /\ LiesOn(geo.value[i].right_bound, geo.right_bound)

\* Cells cut along a left bound that is the shorter one and runs against
\* the right bound.
C26_Witness ==
    /\ geo.kind = "cells"
    /\ Length(geo.left_bound) < Length(geo.right_bound)
    /\ get_heading(geo.left_bound[1], geo.left_bound[2])
          # get_heading(geo.right_bound[1], geo.right_bound[2])
    /\ Len(geo.value) > 1

\* C27: the decomposition tiles the shorter bound of length L > 0 with
\* exactly ceil(L / cell_len) cells: the first starts at the start of the
\* bound, every cell ends where the next starts, the last ends at the end
\* of the bound, and no cell spans more than cell_len along the bound.
C27_CellsTileShorterBound ==
    geo.kind = "cells" =>
        /\ Len(geo.value) * cell_len >= Length(Shorter)
        /\ (Len(geo.value) - 1) * cell_len < Length(Shorter)
        /\ ShorterSide(geo.value[1])[1] = Shorter[1]
        /\ ShorterSide(geo.value[Len(geo.value)])[2] = Last(Shorter)
        /\ \A i \in 1..(Len(geo.value) - 1) :
              ShorterSide(geo.value[i])[2] = ShorterSide(geo.value[i + 1])[1]
        /\ \A i \in 1..Len(geo.value) :
              SegLen(ShorterSide(geo.value[i])[1], ShorterSide(geo.value[i])[2]) <= cell_len

\* A shorter bound whose length is no multiple of cell_len is cut into
\* cells, the last one shorter than the others.
C27_Witness ==
    /\ geo.kind = "cells"
    /\ Length(Shorter) % cell_len # 0
    /\ Len(geo.value) = 3
    /\ SegLen(ShorterSide(geo.value[3])[1], ShorterSide(geo.value[3])[2]) < cell_len

(***************************************************************************)
(* The claims about the geometry helpers of the ray and of the frame.      *)
(***************************************************************************)
\* The direction of a heading of h eighths of a turn, not normalised.
Towards(h) ==
    LET k == h % 8
    IN  IF k = 0 THEN <<1, 0>> ELSE IF k = 1 THEN <<1, 1>>
        ELSE IF k = 2 THEN <<0, 1>> ELSE IF k = 3 THEN <<-1, 1>>
        ELSE IF k = 4 THEN <<-1, 0>> ELSE IF k = 5 THEN <<-1, -1>>
        ELSE IF k = 6 THEN <<0, -1>> ELSE <<1, -1>>
\* How far the target of the ray lies to the left of it (negative: to the
\* right), and how far ahead of the origin (negative: behind).
Leftward ==
    Towards(geo.heading)[1] * (geo.target[2] - geo.origin[2])
        - Towards(geo.heading)[2] * (geo.target[1] - geo.origin[1])
Ahead ==
    Towards(geo.heading)[1] * (geo.target[1] - geo.origin[1])
        + Towards(geo.heading)[2] * (geo.target[2] - geo.origin[2])

InFrame == IF geo.kind = "transformed" THEN geo.value ELSE geo.transformed

Is(sample, p) ==
    /\ sample[1] = p[1] * geo.value.den
    /\ sample[2] = p[2] * geo.value.den

\* C23: for every curve given to L2Linestring._interpolate, of any length
\* and under any step, the resampled polyline starts at the first input
\* point of the curve and ends at its last input point.
C23_ResampledEndsOnCurveEnds ==
    geo.kind = "_interpolate" =>
        /\ geo.value.error = None
        /\ Len(geo.value.cubic_spline) >= 1
        /\ Is(geo.value.cubic_spline[1], geo.coords[1])
        /\ Is(Last(geo.value.cubic_spline), Last(geo.coords))

\* The arc length of the resampled polyline from its first sample to sample
\* i, times den.
RECURSIVE ArcLength(_)
ArcLength(i) ==
    IF i <= 1 THEN 0
    ELSE ArcLength(i - 1)
             + Abs(geo.value.cubic_spline[i][1] - geo.value.cubic_spline[i - 1][1])

\* C28: after _interpolate the heading array and the cumulative-distance
\* array have one entry per resampled point, and entry i of spline_cumdist
\* is the arc length from the first sample to sample i: 0 for the first
\* sample, the total length for the last.
C28_CumdistIsArcLength ==
    (geo.kind = "_interpolate" /\ geo.value.error = None) =>
        /\ Len(geo.value.spline_heading) = Len(geo.value.cubic_spline)
        /\ Len(geo.value.spline_cumdist) = Len(geo.value.cubic_spline)
        /\ \A i \in 1..Len(geo.value.cubic_spline) :
               geo.value.spline_cumdist[i] = ArcLength(i)

====
